---- MODULE Spec2Model ----
(***************************************************************************)
(* Agents (newAgent / newLoggedAgent) and the update wiring that chains    *)
(* fileAgent -> metadataAgent -> gridAgent -> fieldAgent.                   *)
(*                                                                         *)
(* Spec drives one agent, "agent", through its interface (submit, cancel,  *)
(* tasks of every behaviour); SpecPipeline drives the four chained agents  *)
(* with the tasks and listeners init() gives them.                         *)
(*                                                                         *)
(* Every submit() issues a fresh cancel token; the k-th submission of an   *)
(* agent owns token k and token 0 is the one cancelFactory() creates when  *)
(* the agent is constructed.  The result of the k-th task is written k, so *)
(* value() tells which task produced it.                                   *)
(***************************************************************************)
EXTENDS Integers, FiniteSets, Sequences, TLC

\* most submissions followed on the agent of Spec
MaxTasks == 3
\* most submissions followed on each agent of the pipeline
MaxStage == 1
\* columns of the view that interpolateField fills
MaxColumns == 4
\* most frames that evolve and draw, for each run of animate
MaxFrames == 2
\* most levels and most time steps of a file
MaxLevels == 2
MaxTimes == 2
\* most columns and rows of the grid of a file
MaxNx == 3
MaxNy == 2
\* the largest width and height of a raster, and the passes made over it
MaxWidth == 3
MaxHeight == 3
MaxPasses == 2
\* the latitudes and longitudes of cells lie between -MaxDegree and MaxDegree
MaxDegree == 1
\* calls made before the worker has started, calls awaiting their response
\* at a time, and calls made in all where ids need not come round
MaxEarly == 1
MaxOutstanding == 1
MaxCalls == 4
\* the number of ids getNextCallId hands out before it repeats one
IdSpace == 1000
\* the pixels of the row of the view a field covers
MaxPixels == 3
\* most files submitted to fileAgent where the loading of files is followed
MaxFiles == 2
\* MAX_PARTICLE_AGE of earth.js
MAX_PARTICLE_AGE == 100

Pipeline == {"file", "metadata", "grid", "field"}
Agents == {"agent", "animator"} \cup Pipeline
Bound(a) ==
    IF a = "agent" THEN MaxTasks ELSE IF a = "file" THEN MaxFiles ELSE MaxStage
Tasks == 1..(IF MaxTasks > MaxStage THEN MaxTasks ELSE MaxStage)

\* value() of an agent built without an initial value
Undefined == 0
\* what run() returns for a task cancelled before its arguments resolved
Null == -1

VARIABLES
    value,      \* value[a]: the agent's closure variable `value`
    cancel,     \* cancel[a]: the token stored in agent.cancel
    requested,  \* requested[a]: the tokens whose .requested flag is set
    pc,         \* pc[a][k]: where the k-th submitted task stands
    held,       \* held[a][k]: value() when the unsettled task k was submitted
    last,       \* the call made by the last step and the event it triggered
    columns,    \* columns[k]: columns interpolated by task k of fieldAgent
    batch,      \* batch[k]: where batchInterpolate of that task stands
    taskCancel, \* taskCancel[k]: the token interpolateField took from this.cancel
    field,      \* field[f]: the columns of the f-th field fieldAgent handed on
    loop,       \* loop[k]: where the frame loop of task k of animatorAgent stands
    frames,     \* frames[k]: frames of that loop that went on to evolve and draw
    animCancel, \* animCancel[k]: the token animate took from this.cancel
    attr,       \* the configuration attributes a product is created from
    overlayDef, \* definedDimensions of the overlay the generic product shows
    metadata,   \* metadataAgent.value(): sizes and ranges of the dimensions
    samples,    \* what worker.getValues returns: the data of the variables
    product,    \* where the product stands: created, built, failed
    fetched,    \* the indices of the worker.getValues calls made so far
    header,     \* builder.header
    bounds,     \* builder.bounds
    grid,       \* the rows buildGrid stored
    point,      \* the [longitude, latitude] interpolate was last called with
    returned,   \* what that call returned
    config,     \* the attributes and overlays productsFor is called with
    selected,   \* what productsFor returned and buildGrids made of it
    raster,     \* an ArrayGrid: width, height and the cells of this.grid
    before,     \* that raster as it was before the last averageGrid
    passes,     \* the number of times averageGrid ran on it
    source,     \* latitudes and longitudes, in degrees, of the cells of a file
    placed,     \* the raster made for them and the raster index of each cell
    handler,    \* the last event a handler of which threw, and what followed
    callId,     \* callId of worker-api.js
    issued,     \* the number of calls made so far; call n is the n-th of them
    started,    \* the worker has loaded the wasm and assigned self.onmessage
    listeners,  \* the "message" listeners call has added and not removed
    orphaned,   \* calls whose listener was removed without settling the promise
    inbox,      \* messages posted to the worker and not dispatched there yet
    outbox,     \* messages posted by the worker and not dispatched yet
    delivery,   \* the last message dispatched to the listeners, and its effect
    pixels,     \* the columns of a field: the vector of each pixel of a row
    particle,   \* a particle of animate
    randomized, \* the position field.randomize gave in the last step, if any
    download,   \* download[k]: where loadFile or downloadFile of task k stands
    worker      \* WorkerState.file and the messages to and from the worker

\* the state of interpolateField
fieldVars == <<columns, batch, taskCancel>>
\* the fields handed to the animator and the state of animate
animVars == <<field, loop, frames, animCancel>>
\* the inputs of a product and the product itself
productVars == <<attr, overlayDef, metadata, samples, product, fetched>>
\* the grid of a product and the last call of its interpolate
gridVars == <<header, bounds, grid, point, returned>>
\* the selection of the products
selectVars == <<config, selected>>
\* a raster of an irregular grid
rasterVars == <<raster, before, passes>>
\* the cells of an irregular grid and their places in the raster
placeVars == <<source, placed>>
\* the calls of the worker and the messages between the two threads
workerVars ==
    <<callId, issued, started, listeners, orphaned, inbox, outbox, delivery>>
\* what the worker leaves alone
restVars == <<fieldVars, animVars, productVars, gridVars, selectVars,
              rasterVars, placeVars, handler, download, worker>>
\* a field and a particle moving in it
particleVars == <<pixels, particle, randomized>>
moreVars == <<selectVars, rasterVars, placeVars, handler, workerVars,
              particleVars, download, worker>>
\* what the loading of a file leaves alone
otherVars == <<fieldVars, animVars, productVars, gridVars, selectVars,
               rasterVars, placeVars, handler, workerVars, particleVars>>
\* what the agents themselves do not touch
ext == <<fieldVars, animVars, productVars, gridVars, moreVars>>

vars == <<value, cancel, requested, pc, held, last, ext>>

\* pc[a][k]:
\*   "none"       not submitted yet
\*   "debounced"  held by the debounce, the timer has not fired
\*   "dropped"    replaced in the debounce by a later submission
\*   "args"       runTask called; Promise.all(arguments) pending
\*   "skipped"    run returned null without applying the task function
\*   "running"    task function applied, its result not yet accepted/rejected
\*   "aborted"    as "running", and the task function has called this.cancel()
\*   "settled"    accept or reject has been called
Live == {"debounced", "args", "skipped", "running", "aborted"}

\* last.ev: "submit" (submit called), "cancel" (cancel() called from outside a
\* task), "runTask", "apply" (task function applied), "null" (run returned
\* null), "abort" (this.cancel() called by a task), "update" and "discard"
\* (accept called, with and without effect), "reject" and "suppress" (reject
\* called, with and without effect).
\* a, k: the agent and task; arg: the event's argument; seen: value() as an
\* "update" handler reads it; n: cancel() calls made in succession on agent a
\* (1, or 2 for two and more);
\* ret: what the cancel() call returned; subs: agents submitted to by the
\* event's handlers; from: pc[a][k] when accept or reject was called
Event(ev, a, k) ==
    [ev |-> ev, a |-> a, k |-> k, arg |-> 0, seen |-> 0, n |-> 0,
     ret |-> "none", subs |-> {}, from |-> "none"]

\* the agent whose "update" a downstream agent listens to
Upstream(d) ==
    CASE d = "metadata" -> "file"
      [] d = "grid" -> "metadata"
      [] d = "field" -> "grid"
      [] OTHER -> "none"

\* listeners that would submit on a rejection as they do on an update
SubmitListenersOnSettle(a, ev) ==
    IF ev \in {"update", "reject"} THEN {d \in Agents : Upstream(d) = a}
    ELSE {}

\* agents whose listener on event ev of agent a submits a task
SubmitListeners(a, ev) ==
    IF ev = "update" THEN {d \in Agents : Upstream(d) = a} ELSE {}

\* a cancel() that sets no flag
cancelNoop(req, tok) == req

\* a cancel() that flips the flag
cancelToggle(req, tok) == IF tok \in req THEN req \ {tok} ELSE req \cup {tok}

\* cancel(): cancel.requested = true
cancelFn(req, tok) == req \cup {tok}

\* a this.cancel bound to the token of the previous submission
thisCancelStale(a) == IF cancel[a] > 0 THEN cancel[a] - 1 ELSE cancel[a]

\* this.cancel inside a task function applied with the agent as this
thisCancel(a) == cancel[a]

\* what cancel() returns
cancelReturns(a) == a

\* cancel() calls made in succession on agent a, this one included
Succession(a) ==
    IF last.ev \in {"cancel", "abort"} /\ last.a = a THEN 2 ELSE 1

\* a runTask scheduled once per call
runTask_eachCall(p, k) == [p EXCEPT ![k] = "debounced"]

\* a debounce that keeps the call that is waiting and drops the new one
runTask_leading(p, k) ==
    [j \in Tasks |-> IF j # k THEN p[j]
                     ELSE IF \E i \in Tasks : p[i] = "debounced" THEN "dropped"
                     ELSE "debounced"]

\* _.debounce(runTask, 0): a call replaces the arguments of a call that is
\* still waiting for the timer
runTask_debounced(p, k) ==
    [j \in Tasks |-> IF j = k THEN "debounced"
                     ELSE IF p[j] = "debounced" THEN "dropped"
                     ELSE p[j]]

\* agent.submit(task, ...args) on every agent of S; newValue is value() and
\* p is pc at the time of the call
submit(S, newValue, p) ==
    /\ \A x \in S : cancel[x] < Bound(x)
    /\ requested' = [x \in Agents |->
            IF x \in S THEN cancelFn(requested[x], cancel[x]) ELSE requested[x]]
    /\ cancel' = [x \in Agents |-> IF x \in S THEN cancel[x] + 1 ELSE cancel[x]]
    /\ pc' = [x \in Agents |->
            IF x \in S THEN runTask_debounced(p[x], cancel[x] + 1) ELSE p[x]]
    /\ held' = [x \in Agents |-> [j \in Tasks |->
            IF pc'[x][j] \notin Live THEN Undefined
            ELSE IF x \in S /\ j = cancel[x] + 1 THEN newValue[x]
            ELSE held[x][j]]]

\* the agents as constructed, nothing submitted, no field, no animation
InitAgents ==
    /\ value = [a \in Agents |-> Undefined]
    /\ cancel = [a \in Agents |-> 0]
    /\ requested = [a \in Agents |-> {}]
    /\ pc = [a \in Agents |-> [k \in Tasks |-> "none"]]
    /\ held = [a \in Agents |-> [k \in Tasks |-> Undefined]]
    /\ last = Event("init", "none", 0)
    /\ columns = [k \in Tasks |-> 0]
    /\ batch = [k \in Tasks |-> "none"]
    /\ taskCancel = [k \in Tasks |-> 0]
    /\ field = [f \in Tasks |-> "none"]
    /\ loop = [k \in Tasks |-> "none"]
    /\ frames = [k \in Tasks |-> 0]
    /\ animCancel = [k \in Tasks |-> 0]

\* no product asked for
NoProduct ==
    /\ attr = [heightIndex |-> 0, timeIndex |-> 0]
    /\ overlayDef = [height |-> FALSE, time |-> FALSE]
    /\ metadata = [none |-> TRUE]
    /\ samples = [none |-> TRUE]
    /\ product = [st |-> "none", indices |-> <<>>]
    /\ fetched = <<>>

\* no grid built
NoGrid ==
    /\ header = [none |-> TRUE]
    /\ bounds = <<>>
    /\ grid = <<>>
    /\ point = <<>>
    /\ returned = [t |-> "none"]

\* no selection of products asked for
NoSelection ==
    /\ config = [none |-> TRUE]
    /\ selected = [t |-> "none"]

\* no raster made
NoRaster ==
    /\ raster = [none |-> TRUE]
    /\ before = [none |-> TRUE]
    /\ passes = 0

\* no cells to place
NoPlaces ==
    /\ source = [none |-> TRUE]
    /\ placed = [t |-> "none"]

\* no handler has thrown
NoThrow == handler = [threw |-> "none"]

\* no call of the worker made
NoCalls ==
    /\ callId = 0
    /\ issued = 0
    /\ started = FALSE
    /\ listeners = {}
    /\ orphaned = {}
    /\ inbox = <<>>
    /\ outbox = <<>>
    /\ delivery = [of |-> 0]

\* no particle
NoParticles ==
    /\ pixels = <<>>
    /\ particle = [st |-> "none"]
    /\ randomized = <<>>

\* nothing asked of the worker
NoDownload ==
    /\ download = [k \in Tasks |-> [st |-> "none"]]
    /\ worker = [file |-> 0, inbox |-> <<>>, outbox |-> <<>>]

\* nothing but the agents and the products of a grid
NoMore ==
    /\ NoSelection /\ NoRaster /\ NoPlaces /\ NoThrow /\ NoCalls /\ NoDownload
    /\ NoParticles

Init == InitAgents /\ NoProduct /\ NoGrid /\ NoMore


\* agent.submit(task, ...args) by a client of the agent
Submit(a) ==
    /\ submit({a}, value, pc)
    /\ last' = Event("submit", a, cancel'[a])
    /\ UNCHANGED <<value, ext>>

\* agent.cancel() by a client of the agent
Cancel(a) ==
    /\ requested' = [requested EXCEPT ![a] = cancelFn(@, cancel[a])]
    /\ last' = [Event("cancel", a, cancel[a]) EXCEPT
            !.n = Succession(a), !.ret = cancelReturns(a)]
    /\ UNCHANGED <<value, cancel, pc, held, ext>>

\* a dropped file or a changed "file" attribute: fileAgent.submit(...)
SubmitFile ==
    /\ cancel["file"] < MaxStage
    /\ Submit("file")

\* a change of a layer attribute of the configuration: gridAgent.submit(...)
\* unless there is no file yet
ConfigurationChange ==
    /\ value["file"] \notin {Undefined, Null}
    /\ Submit("grid")

\* rendererAgent "render": startInterpolation
StartInterpolation == Submit("field")

\* rendererAgent "start" or "redraw": cancelInterpolation, fieldAgent.cancel()
CancelInterpolation == Cancel("field")

\* the debounce timer fires: runTask(cancel, taskAndArguments), which waits
\* for the arguments and triggers "submit"
RunTask(a, k) ==
    /\ pc[a][k] = "debounced"
    /\ pc' = [pc EXCEPT ![a][k] = "args"]
    /\ last' = Event("runTask", a, k)
    /\ UNCHANGED <<value, cancel, requested, held, ext>>

\* a run that applies the task function whatever the flag
runAlways(req, k) == TRUE

\* run: cancel.requested ? null : task.apply(agent, args)
runApplies(req, k) == k \notin req

\* Promise.all(arguments) resolved: run(args).  A task cancelled by now is
\* not applied and run returns null; otherwise the task function is applied
\* with the agent as this, and may call this.cancel() before it returns.
run(a, k, selfCancel) ==
    /\ pc[a][k] = "args"
    /\ IF ~runApplies(requested[a], k)
       THEN /\ selfCancel = FALSE
            /\ pc' = [pc EXCEPT ![a][k] = "skipped"]
            /\ last' = Event("null", a, k)
            /\ UNCHANGED requested
       ELSE IF selfCancel
       THEN /\ pc' = [pc EXCEPT ![a][k] = "aborted"]
            /\ requested' = [requested EXCEPT ![a] = cancelFn(@, thisCancel(a))]
            /\ last' = [Event("abort", a, k) EXCEPT
                    !.n = 1, !.ret = cancelReturns(a)]
       ELSE /\ pc' = [pc EXCEPT ![a][k] = "running"]
            /\ last' = Event("apply", a, k)
            /\ UNCHANGED requested
    /\ UNCHANGED <<value, cancel, held>>

\* run(args) of a task that leaves the fields and grids alone
Run(a, k, selfCancel) ==
    /\ run(a, k, selfCancel)
    /\ UNCHANGED ext

\* a task function still at work (its promise is pending) calls this.cancel()
TaskCancels(a, k) ==
    /\ pc[a][k] \in {"running", "aborted"}
    /\ pc' = [pc EXCEPT ![a][k] = "aborted"]
    /\ requested' = [requested EXCEPT ![a] = cancelFn(@, thisCancel(a))]
    /\ last' = [Event("abort", a, k) EXCEPT
            !.n = Succession(a), !.ret = cancelReturns(a)]
    /\ UNCHANGED <<value, cancel, held, ext>>

\* an accept without the check of the flag
acceptAlways(req, k) == TRUE

\* accept: if(!cancel.requested)
acceptUpdates(req, k) == k \notin req

\* a trigger placed before the assignment
valueBeforeAssignment(old, result) == old

\* the value an "update" handler reads from value(), accept assigning value
\* before it triggers the event
valueInHandler(old, result) == result

\* accept(result): the value run returned, or the value its promise resolved
\* to; the "update" handlers run inside the trigger
Accept(a, k) ==
    /\ pc[a][k] \in {"running", "aborted", "skipped"}
    /\ UNCHANGED ext
    /\ LET result == IF pc[a][k] = "skipped" THEN Null ELSE k
           newValue == [value EXCEPT ![a] = result]
           settled == [pc EXCEPT ![a][k] = "settled"]
       IN IF acceptUpdates(requested[a], k)
          THEN /\ value' = newValue
               /\ submit(SubmitListeners(a, "update"), newValue, settled)
               /\ last' = [Event("update", a, k) EXCEPT
                       !.arg = result, !.from = pc[a][k],
                       !.seen = valueInHandler(value[a], result),
                       !.subs = SubmitListeners(a, "update")]
          ELSE /\ submit({}, value, settled)
               /\ last' = [Event("discard", a, k) EXCEPT
                       !.arg = result, !.from = pc[a][k]]
               /\ UNCHANGED value

\* a reject without the check of the flag
rejectAlways(req, k) == TRUE

\* a reject that triggers nothing
rejectNever(req, k) == FALSE

\* reject: if(!cancel.requested)
rejectEmits(req, k) == k \notin req

\* reject(err): the task function threw or its promise was rejected
\* (fromArgs = FALSE), or one of the argument promises was rejected and the
\* task function was skipped (fromArgs = TRUE)
Reject(a, k, fromArgs) ==
    /\ IF fromArgs THEN pc[a][k] = "args"
                   ELSE pc[a][k] \in {"running", "aborted"}
    /\ LET ev == IF rejectEmits(requested[a], k) THEN "reject" ELSE "suppress"
       IN /\ submit(SubmitListeners(a, ev), value,
                    [pc EXCEPT ![a][k] = "settled"])
          /\ last' = [Event(ev, a, k) EXCEPT
                  !.arg = IF fromArgs THEN 1 ELSE 0, !.from = pc[a][k],
                  !.subs = SubmitListeners(a, ev)]
    /\ UNCHANGED <<value, ext>>

Next ==
    \/ Submit("agent")
    \/ Cancel("agent")
    \/ \E k \in Tasks : RunTask("agent", k)
    \/ \E k \in Tasks, c \in BOOLEAN : Run("agent", k, c)
    \/ \E k \in Tasks : TaskCancels("agent", k)
    \/ \E k \in Tasks : Accept("agent", k)
    \/ \E k \in Tasks, c \in BOOLEAN : Reject("agent", k, c)

Spec == Init /\ [][Next]_vars

\* The timer of the debounce fires in the end, and so does the reaction of
\* Promise.all to arguments that are resolved: both are queued by the event
\* loop.  Nothing makes a task function settle, nor a client submit or
\* cancel.
SpecLive ==
    /\ Spec
    /\ WF_vars(\E k \in Tasks : RunTask("agent", k))
    /\ WF_vars(\E k \in Tasks : Run("agent", k, FALSE))

\* The tasks of the pipeline (loadFile, downloadFile, buildMetadata,
\* buildGrids, interpolateField) take plain values as arguments and do not
\* call this.cancel().  Of the listeners init() registers, those that submit
\* to or cancel one of the four agents are followed.
NextPipeline ==
    \/ SubmitFile
    \/ ConfigurationChange
    \/ StartInterpolation
    \/ CancelInterpolation
    \/ \E a \in Pipeline, k \in Tasks : RunTask(a, k)
    \/ \E a \in Pipeline, k \in Tasks : Run(a, k, FALSE)
    \/ \E a \in Pipeline, k \in Tasks : Accept(a, k)
    \/ \E a \in Pipeline, k \in Tasks : Reject(a, k, FALSE)

SpecPipeline == Init /\ [][NextPipeline]_vars

(***************************************************************************)
(* interpolateField: the view is MaxColumns columns wide (bounds.x to       *)
(* bounds.xMax in steps of 2).                                             *)
(*                                                                         *)
(* batch[k]:                                                               *)
(*   "none"      interpolateField not called                               *)
(*   "null"      interpolateField returned null (no globe or no grids)     *)
(*   "sleeping"  setTimeout(batchInterpolate, MIN_SLEEP_TIME) is pending   *)
(*   "resolved"  resolve(createField(columns, bounds, mask)) called        *)
(*   "rejected"  reject(e) called                                          *)
(***************************************************************************)

\* a batch that does not look at the flag
batchIgnoresCancel(req, tok) == FALSE

\* batchInterpolate: if(!cancel.requested) guards the loop
batchSeesCancel(req, tok) == tok \in req

\* a loop that looks at the time before it interpolates a column
yieldsAtOnce(n) == n >= 0

\* the loop of batchInterpolate looks at the time after interpolateColumn(x)
\* and x += 2: a call that yields has interpolated n >= 1 columns
yieldsAfterColumn(n) == n >= 1

\* how a call of batchInterpolate ends: MAX_TASK_TIME exceeded after a
\* column, the loop ran to bounds.xMax, or an exception was caught
Outcomes == {"yield", "resolve", "throw"}

\* one call of batchInterpolate for task k, holding token tok: n columns are
\* interpolated, then the call ends with outcome o
batchInterpolate(k, tok, n, o) ==
    IF batchSeesCancel(requested["field"], tok)
    THEN /\ n = 0 /\ o = "resolve"
         /\ batch' = [batch EXCEPT ![k] = "resolved"]
         /\ UNCHANGED columns
    ELSE /\ n <= MaxColumns - columns[k]
         /\ columns' = [columns EXCEPT ![k] = @ + n]
         /\ CASE o = "yield" ->
                    /\ yieldsAfterColumn(n)
                    /\ batch' = [batch EXCEPT ![k] = "sleeping"]
              [] o = "resolve" ->
                    /\ n = MaxColumns - columns[k]
                    /\ batch' = [batch EXCEPT ![k] = "resolved"]
              [] o = "throw" ->
                    /\ batch' = [batch EXCEPT ![k] = "rejected"]

\* run(args) applying interpolateField(globe, grids): the first call of
\* batchInterpolate is made by the Promise executor, before the task returns
InterpolateField(k, ready, n, o) ==
    /\ run("field", k, FALSE)
    /\ UNCHANGED <<animVars, productVars, gridVars, moreVars>>
    /\ IF pc'["field"][k] # "running"
       THEN /\ ready /\ n = 0 /\ o = "resolve"
            /\ UNCHANGED fieldVars
       ELSE IF ~ready
       THEN /\ n = 0 /\ o = "resolve"
            /\ batch' = [batch EXCEPT ![k] = "null"]
            /\ UNCHANGED <<columns, taskCancel>>
       ELSE /\ taskCancel' = [taskCancel EXCEPT ![k] = thisCancel("field")]
            /\ batchInterpolate(k, thisCancel("field"), n, o)

\* the timer set by batchInterpolate fires
BatchInterpolate(k, n, o) ==
    /\ batch[k] = "sleeping"
    /\ batchInterpolate(k, taskCancel[k], n, o)
    /\ last' = Event("batch", "field", k)
    /\ UNCHANGED <<value, cancel, requested, pc, held, taskCancel>>
    /\ UNCHANGED <<animVars, productVars, gridVars, moreVars>>

\* accept(result): run returned null, interpolateField returned null, or
\* its promise was resolved
AcceptField(k) ==
    /\ pc["field"][k] = "skipped" \/ batch[k] \in {"null", "resolved"}
    /\ Accept("field", k)

\* reject(e): the promise of interpolateField was rejected
RejectField(k) ==
    /\ batch[k] = "rejected"
    /\ Reject("field", k, FALSE)

NextField ==
    \/ StartInterpolation
    \/ CancelInterpolation
    \/ \E k \in Tasks : RunTask("field", k)
    \/ \E k \in Tasks, ready \in BOOLEAN, n \in 0..MaxColumns, o \in Outcomes :
            InterpolateField(k, ready, n, o)
    \/ \E k \in Tasks, n \in 0..MaxColumns, o \in Outcomes :
            BatchInterpolate(k, n, o)
    \/ \E k \in Tasks : AcceptField(k)
    \/ \E k \in Tasks : RejectField(k)

SpecField == Init /\ [][NextField]_vars

\* The timer batchInterpolate sets, setTimeout(batchInterpolate,
\* MIN_SLEEP_TIME), fires in the end.
SpecFieldLive ==
    /\ SpecField
    /\ WF_vars(\E k \in Tasks, n \in 0..MaxColumns, o \in Outcomes :
                    BatchInterpolate(k, n, o))

(***************************************************************************)
(* animate: the f-th "update" of fieldAgent submits the f-th task of        *)
(* animatorAgent with the field it carries, so that task k animates field  *)
(* k.                                                                      *)
(*                                                                         *)
(* field[f]:                                                               *)
(*   "none"      not handed on yet                                         *)
(*   "null"      the update carried null                                   *)
(*   "filled"    a field whose columns are those createField was given     *)
(*   "released"  a field whose columns are [], field.release() called      *)
(* loop[k]:                                                                *)
(*   "none"       animate not called                                       *)
(*   "idle"       animate returned before it set up the loop               *)
(*   "scheduled"  setTimeout(frame, FRAME_RATE) is pending                 *)
(*   "stopped"    frame returned on cancel.requested                       *)
(*   "failed"     evolve or draw threw, report.error(e) called             *)
(***************************************************************************)

\* a frame that does not look at the flag
frameIgnoresCancel(req, tok) == FALSE

\* frame: if(cancel.requested)
frameSeesCancel(req, tok) == tok \in req

\* a release that leaves the columns in place
releaseKeeps(c) == c

\* field.release: columns = []
release(c) == "released"

\* one call of frame for task k, holding token tok; thrown tells whether
\* evolve or draw throws
frame(k, tok, thrown) ==
    IF frameSeesCancel(requested["animator"], tok)
    THEN /\ ~thrown
         /\ field' = [field EXCEPT ![k] = release(@)]
         /\ loop' = [loop EXCEPT ![k] = "stopped"]
         /\ UNCHANGED frames
    ELSE /\ frames[k] < MaxFrames
         /\ frames' = [frames EXCEPT ![k] = @ + 1]
         /\ loop' = [loop EXCEPT ![k] = IF thrown THEN "failed" ELSE "scheduled"]
         /\ UNCHANGED field

\* fieldAgent triggers "update": its value is a field built by
\* interpolateField, or null, and the listener of animatorAgent submits
\* animate(globe, field, grids)
FieldUpdate(isField) ==
    /\ LET f == cancel["animator"] + 1
           newValue == [value EXCEPT !["field"] = IF isField THEN f ELSE Null]
       IN /\ submit({"animator"}, newValue, pc)
          /\ value' = newValue
          /\ field' = [field EXCEPT ![f] = IF isField THEN "filled" ELSE "null"]
          /\ last' = [Event("update", "field", f) EXCEPT
                  !.arg = newValue["field"], !.subs = {"animator"}]
    /\ UNCHANGED <<fieldVars, loop, frames, animCancel, productVars, gridVars, moreVars>>

\* rendererAgent "start", gridAgent "submit", fieldAgent "submit"
StopCurrentAnimation == Cancel("animator")

\* run(args) applying animate(globe, field, grids); the first call of frame
\* is made before animate returns
Animate(k, hasVectorField, thrown) ==
    /\ run("animator", k, FALSE)
    /\ IF pc'["animator"][k] # "running"
       THEN /\ hasVectorField /\ ~thrown
            /\ UNCHANGED animVars
       ELSE IF field[k] = "null" \/ ~hasVectorField
       THEN /\ ~thrown
            /\ loop' = [loop EXCEPT ![k] = "idle"]
            /\ UNCHANGED <<field, frames, animCancel>>
       ELSE /\ animCancel' = [animCancel EXCEPT ![k] = thisCancel("animator")]
            /\ frame(k, thisCancel("animator"), thrown)
    /\ UNCHANGED <<fieldVars, productVars, gridVars, moreVars>>

\* the timer set by frame fires
Frame(k, thrown) ==
    /\ loop[k] = "scheduled"
    /\ frame(k, animCancel[k], thrown)
    /\ last' = Event("frame", "animator", k)
    /\ UNCHANGED <<value, cancel, requested, pc, held, animCancel>>
    /\ UNCHANGED <<fieldVars, productVars, gridVars, moreVars>>

\* drawOverlay(fieldAgent.value(), overlayType) of overlayAgent puts
\* field.overlay on the canvas
DrawOverlay ==
    /\ value["field"] \notin {Undefined, Null}
    /\ last' = [Event("drawOverlay", "overlay", 0) EXCEPT
            !.arg = value["field"]]
    /\ UNCHANGED <<value, cancel, requested, pc, held, ext>>

NextAnimator ==
    \/ \E isField \in BOOLEAN : FieldUpdate(isField)
    \/ StopCurrentAnimation
    \/ \E k \in Tasks : RunTask("animator", k)
    \/ \E k \in Tasks, v \in BOOLEAN, t \in BOOLEAN : Animate(k, v, t)
    \/ \E k \in Tasks, t \in BOOLEAN : Frame(k, t)
    \/ \E k \in Tasks : Accept("animator", k)
    \/ DrawOverlay

\* a timer that is set fires
SpecAnimator ==
    Init /\ [][NextAnimator]_vars
         /\ WF_vars(\E k \in Tasks, t \in BOOLEAN : Frame(k, t))

(***************************************************************************)
(* Numbers.  <<n, d>> with d > 0 is n/d in lowest terms, <<0, 0>> is NaN   *)
(* and <<0, -1>> is undefined.  Arithmetic is exact: the rounding of       *)
(* floating point is not followed.                                         *)
(***************************************************************************)

RECURSIVE GCD(_, _)
GCD(a, b) == IF b = 0 THEN a ELSE GCD(b, a % b)

Abs(n) == IF n < 0 THEN -n ELSE n

Norm(n, d) == LET g == GCD(Abs(n), d) IN <<n \div g, d \div g>>

Q(n) == <<n, 1>>

NaN == <<0, 0>>

Absent == <<0, -1>>

IsNum(a) == a[2] > 0

\* a + b, a - b, a * b, a / b; an operand that is NaN or undefined gives NaN
Add(a, b) ==
    IF IsNum(a) /\ IsNum(b)
    THEN Norm(a[1] * b[2] + b[1] * a[2], a[2] * b[2]) ELSE NaN

Sub(a, b) ==
    IF IsNum(a) /\ IsNum(b)
    THEN Norm(a[1] * b[2] - b[1] * a[2], a[2] * b[2]) ELSE NaN

Mul(a, b) ==
    IF IsNum(a) /\ IsNum(b) THEN Norm(a[1] * b[1], a[2] * b[2]) ELSE NaN

\* the divisors of the model (dx, dy) are positive
Div(a, b) ==
    IF IsNum(a) /\ IsNum(b) /\ b[1] > 0
    THEN Norm(a[1] * b[2], a[2] * b[1]) ELSE NaN

\* a < b, false when an operand is NaN
Less(a, b) == IsNum(a) /\ IsNum(b) /\ a[1] * b[2] < b[1] * a[2]

\* Math.floor, as an integer
Floor(a) == a[1] \div a[2]

RECURSIVE RootBetween(_, _, _)
\* the largest r in lo..hi with r * r <= n
RootBetween(n, lo, hi) ==
    IF lo = hi THEN lo
    ELSE LET mid == (lo + hi + 1) \div 2
         IN IF mid * mid <= n THEN RootBetween(n, mid, hi)
            ELSE RootBetween(n, lo, mid - 1)

\* Math.sqrt of a number whose root is rational; NaN stands for the others
Sqrt(a) ==
    IF ~IsNum(a) \/ a[1] < 0 THEN NaN
    ELSE LET rn == RootBetween(a[1], 0, a[1])
             rd == RootBetween(a[2], 0, a[2])
         IN IF rn * rn = a[1] /\ rd * rd = a[2] THEN <<rn, rd>> ELSE NaN

\* Math.min and Math.max of two numbers
MinOf(a, b) == IF a < b THEN a ELSE b

MaxOf(a, b) == IF a < b THEN b ELSE a

(***************************************************************************)
(* Products and grids of a file with a regular grid (metadata.irregular is *)
(* null).                                                                  *)
(*                                                                         *)
(* A value read from a grid, or returned by interpolate, is a record:  t   *)
(* is "number" (the number u), "array" ([u, v], or [u, v, m] as returned   *)
(* by interpolate), "undefined" or "null".                                 *)
(***************************************************************************)

Number(a) == [t |-> "number", u |-> a, v |-> NaN, m |-> NaN]

Array(a, b) == [t |-> "array", u |-> a, v |-> b, m |-> NaN]

Array3(a, b, c) == [t |-> "array", u |-> a, v |-> b, m |-> c]

undefined == [t |-> "undefined", u |-> NaN, v |-> NaN, m |-> NaN]

null == [t |-> "null", u |-> NaN, v |-> NaN, m |-> NaN]

\* isValue: x !== null && x !== undefined
isValue(x) == x.t \notin {"null", "undefined"}

\* createHeader(metadata, time)
createHeader(md) ==
    LET lonValueRange == md.longitude.range
        latValueRange == md.latitude.range
        latMin == MinOf(latValueRange[1], latValueRange[2])
        latMax == MaxOf(latValueRange[1], latValueRange[2])
        latTotalRange == Abs(latMax - latMin)
        lonMin == MinOf(lonValueRange[1], lonValueRange[2])
        lonMax == MaxOf(lonValueRange[1], lonValueRange[2])
        lonTotalRange == Abs(lonMax - lonMin)
    IN [dx |-> Div(Q(lonTotalRange), Q(md.longitude.size)),
        dy |-> Div(Q(latTotalRange), Q(md.latitude.size)),
        la1 |-> Q(latMax), la2 |-> Q(latMin),
        flipped |-> latValueRange[1] < latValueRange[2],
        lo1 |-> Q(lonMin), lo2 |-> Q(lonMax),
        nx |-> md.longitude.size, ny |-> md.latitude.size]

\* values[i] of the array worker.getValues returned for variable name
\* ("values", "u" or "v"): s.size elements, uniform or rising with i, the
\* element at s.hole not a number when the variable is in s.part
valuesAt(s, name, i) ==
    LET w == CASE name = "u" -> 3 [] name = "v" -> 4 [] OTHER -> 1
    IN IF i < 0 \/ i >= s.size THEN Absent
       ELSE IF i = s.hole /\ name \in s.part THEN Absent
       ELSE IF s.uniform THEN Q(w) ELSE Q(w * (i + 1))

\* builder.data(i): values[i] of the generic product, [uValues[i],
\* vValues[i]] of the wind product
data(s, i) ==
    IF s.kind = "vector"
    THEN Array(valuesAt(s, "u", i), valuesAt(s, "v", i))
    ELSE IF IsNum(valuesAt(s, "values", i))
         THEN Number(valuesAt(s, "values", i))
         ELSE undefined

\* createIrregularHeader(metadata, time, gridDescription), the range of a
\* dimension holding the rounded least and greatest of its values and
\* stepping being 2
createIrregularHeader(md) ==
    LET x == md.longitude.range
        y == md.latitude.range
        stepping == 2
    IN [dx |-> Div(Q(1), Q(stepping)), dy |-> Div(Q(1), Q(stepping)),
        la1 |-> Q(y[2]), la2 |-> Q(y[1]),
        flipped |-> TRUE,
        lo1 |-> Q(x[1]), lo2 |-> Q(x[2]),
        nx |-> (x[2] - x[1] + 1) * stepping,
        ny |-> (y[2] - y[1] + 1) * stepping]

\* the header the builder of a product returns
builderHeader(md) ==
    IF md.irregular THEN createIrregularHeader(md) ELSE createHeader(md)

\* fastArrayMax of the squared speeds: elements that are not numbers never
\* exceed max
maxSquared(s) ==
    LET sq(i) == Add(Mul(valuesAt(s, "v", i), valuesAt(s, "v", i)),
                     Mul(valuesAt(s, "u", i), valuesAt(s, "u", i)))
        S == {sq(i) : i \in 0..(s.size - 1)} \ {NaN}
    IN CHOOSE mx \in S : \A y \in S : ~Less(mx, y)

\* fastArrayMin and fastArrayMax of the values of the generic product
minMax(s) ==
    LET S == {valuesAt(s, "values", i) : i \in 0..(s.size - 1)} \ {Absent}
    IN <<CHOOSE mn \in S : \A y \in S : ~Less(y, mn),
         CHOOSE mx \in S : \A y \in S : ~Less(mx, y)>>

\* builder.bounds: [0, max] of the wind product, [min, max] of the generic
builderBounds(s) ==
    IF s.kind = "vector" THEN <<Q(0), Sqrt(maxSquared(s))>> ELSE minMax(s)

\* a test that takes a grid of exactly 360 degrees for one with a gap
isContinuousStrict(ni, dx) == Floor(Mul(Q(ni), dx)) > 360

\* isContinuous = Math.floor(ni * dx) >= 360
isContinuous(ni, dx) == Floor(Mul(Q(ni), dx)) >= 360

\* the placement the other way round
rowIndexReversed(flipped, nj, j) == IF flipped THEN j ELSE nj - j - 1

\* if(flipped) grid[nj - j - 1] = row; else grid[j] = row: where source row
\* j is stored
rowIndex(flipped, nj, j) == IF flipped THEN nj - j - 1 ELSE j

\* the grid buildGrid fills from header h: nj rows; row r holds the samples
\* of source row src[r], data(src[r] * ni + i) at column i < ni and, on a
\* continuous grid, the sample of column push (row.push(row[0])) at column
\* ni
buildGrid(h) ==
    LET ni == h.nx
        nj == h.ny
        flipped == h.flipped
    IN [ni |-> ni, nj |-> nj,
        len |-> IF isContinuous(ni, h.dx) THEN ni + 1 ELSE ni,
        push |-> 0,
        src |-> [r \in 0..(nj - 1) |->
                    CHOOSE j \in 0..(nj - 1) : rowIndex(flipped, nj, j) = r]]

\* grid[r] is an array
hasRow(g, r) == r \in 0..(g.nj - 1)

\* grid[r][c], undefined beyond the end of the row
at(g, s, r, c) ==
    IF c < 0 \/ c >= g.len THEN undefined
    ELSE data(s, g.src[r] * g.ni + (IF c = g.ni THEN g.push ELSE c))

\* floorMod(a, n): a - n * Math.floor(a / n)
floorMod(a, n) == Sub(a, Mul(Q(n), Q(Floor(Div(a, Q(n))))))

\* a combiner that weighs the western samples by x
bilinearInterpolateSwapped(x, y, g00, g10, g01, g11) ==
    LET rx == Sub(Q(1), x)
        ry == Sub(Q(1), y)
    IN Number(Add(Add(Add(Mul(Mul(g00.u, x), ry), Mul(Mul(g10.u, rx), ry)),
                      Mul(Mul(g01.u, x), y)), Mul(Mul(g11.u, rx), y)))

\* bilinearInterpolateScalar(x, y, g00, g10, g01, g11)
bilinearInterpolateScalar(x, y, g00, g10, g01, g11) ==
    LET rx == Sub(Q(1), x)
        ry == Sub(Q(1), y)
    IN Number(Add(Add(Add(Mul(Mul(g00.u, rx), ry), Mul(Mul(g10.u, x), ry)),
                      Mul(Mul(g01.u, rx), y)), Mul(Mul(g11.u, x), y)))

\* bilinearInterpolateVector(x, y, g00, g10, g01, g11)
bilinearInterpolateVector(x, y, g00, g10, g01, g11) ==
    LET rx == Sub(Q(1), x)
        ry == Sub(Q(1), y)
        a == Mul(rx, ry)
        b == Mul(x, ry)
        c == Mul(rx, y)
        d == Mul(x, y)
        u == Add(Add(Add(Mul(g00.u, a), Mul(g10.u, b)), Mul(g01.u, c)),
                 Mul(g11.u, d))
        v == Add(Add(Add(Mul(g00.v, a), Mul(g10.v, b)), Mul(g01.v, c)),
                 Mul(g11.v, d))
    IN Array3(u, v, Sqrt(Add(Mul(u, u), Mul(v, v))))

\* a test of the western and the two latitude bounds only
withinWest(h, lon, lat) ==
    ~(Less(lon, h.lo1) \/ Less(lat, h.la2) \/ Less(h.la1, lat))

\* the point passes the two tests interpolate begins with
within(h, lon, lat) ==
    ~(Less(lon, h.lo1) \/ Less(h.lo2, lon))
        /\ ~(Less(lat, h.la2) \/ Less(h.la1, lat))

\* interpolate(lon, lat) of the grid g built from header h and data s
interpolate(h, g, s, lon, lat) ==
    IF ~within(h, lon, lat) THEN null
    ELSE LET i == Div(floorMod(Sub(lon, h.lo1), 360), h.dx)
             j == Div(Sub(h.la1, lat), h.dy)
             fi == Floor(i)
             ci == fi + 1
             fj == Floor(j)
             cj == fj + 1
         IN IF ~hasRow(g, fj) THEN null
            ELSE LET g00 == at(g, s, fj, fi)
                     g10 == at(g, s, fj, ci)
                 IN IF ~(isValue(g00) /\ isValue(g10)
                            /\ hasRow(g, cj % g.nj))
                    THEN null
                    ELSE LET g01 == at(g, s, cj % g.nj, fi)
                             g11 == at(g, s, cj % g.nj, ci)
                         IN IF ~(isValue(g01) /\ isValue(g11)) THEN null
                            ELSE IF s.kind = "vector"
                            THEN bilinearInterpolateVector(
                                    Sub(i, Q(fi)), Sub(j, Q(fj)),
                                    g00, g10, g01, g11)
                            ELSE bilinearInterpolateScalar(
                                    Sub(i, Q(fi)), Sub(j, Q(fj)),
                                    g00, g10, g01, g11)

\* a product that was not created: create threw
failed == [st |-> "error", indices |-> <<>>]

\* create: if(attr.heightIndex === -1) throw
heightRejected(height, size) == height = -1

\* create: if(time === -1 || metadata.dimensions.time.size <= time) throw
timeRejected(time, size) == time = -1 \/ size <= time

\* FACTORIES.generic.create(attr, metadata): throws, or returns a product
\* whose builder will ask the worker for the values at indices
CreateGeneric ==
    /\ product.st = "none" /\ samples.kind = "scalar"
    /\ LET cells == IF metadata.irregular THEN <<0>> ELSE <<0, 0>>
           levels == IF overlayDef.height
                     THEN <<attr.heightIndex>> \o cells ELSE cells
           indices == IF overlayDef.time
                      THEN <<attr.timeIndex>> \o levels ELSE levels
       IN product' =
            IF overlayDef.height
                /\ heightRejected(attr.heightIndex, metadata.levitation.size)
            THEN failed
            ELSE IF overlayDef.time
                /\ timeRejected(attr.timeIndex, metadata.time.size)
            THEN failed
            ELSE [st |-> "created", indices |-> indices]
    /\ last' = Event("create", "grid", 0)
    /\ UNCHANGED <<value, cancel, requested, pc, held, fieldVars, animVars, moreVars>>
    /\ UNCHANGED <<attr, overlayDef, metadata, samples, fetched, gridVars>>

\* FACTORIES.wind.create(attr, metadata)
CreateWind ==
    /\ product.st = "none" /\ samples.kind = "vector"
    /\ LET height == attr.heightIndex
           time == attr.timeIndex
       IN product' =
            IF heightRejected(height, metadata.levitation.size) THEN failed
            ELSE IF timeRejected(time, metadata.time.size) THEN failed
            ELSE [st |-> "created",
                  indices |-> IF metadata.irregular THEN <<time, height, 0>>
                              ELSE <<time, height, 0, 0>>]
    /\ last' = Event("create", "grid", 0)
    /\ UNCHANGED <<value, cancel, requested, pc, held, fieldVars, animVars, moreVars>>
    /\ UNCHANGED <<attr, overlayDef, metadata, samples, fetched, gridVars>>

\* product.build(worker): the builder asks the worker for the values (u,
\* then v, of the wind product); if the worker answers (ok), the builder
\* returns header, data and bounds and buildGrid stores the rows
Build(ok) ==
    /\ product.st = "created"
    /\ last' = Event("build", "grid", 0)
    /\ IF ok
       THEN /\ fetched' = IF samples.kind = "vector"
                          THEN fetched \o <<product.indices, product.indices>>
                          ELSE Append(fetched, product.indices)
            /\ product' = [product EXCEPT !.st = "built"]
            /\ header' = builderHeader(metadata)
            /\ bounds' = builderBounds(samples)
            /\ grid' = buildGrid(builderHeader(metadata))
            /\ UNCHANGED <<point, returned>>
       ELSE /\ fetched' = Append(fetched, product.indices)
            /\ product' = [product EXCEPT !.st = "failed"]
            /\ UNCHANGED gridVars
    /\ UNCHANGED <<value, cancel, requested, pc, held, fieldVars, animVars, moreVars>>
    /\ UNCHANGED <<attr, overlayDef, metadata, samples>>

\* a call of interpolate(lon, lat) on the built product
InterpolateAt(lon, lat) ==
    /\ product.st = "built"
    /\ point' = <<lon, lat>>
    /\ returned' = interpolate(header, grid, samples, lon, lat)
    /\ last' = Event("interpolate", "grid", 0)
    /\ UNCHANGED <<value, cancel, requested, pc, held, fieldVars, animVars, moreVars>>
    /\ UNCHANGED <<productVars, header, bounds, grid>>

\* the longitude q half steps east of lo1, the latitude r half steps south
\* of la1
lonAt(h, q) == Add(h.lo1, Mul(Q(q), Div(h.dx, Q(2))))

latAt(h, r) == Sub(h.la1, Mul(Q(r), Div(h.dy, Q(2))))

\* interpolate called at a lattice point, half way between two, or beyond
\* the lattice
Interpolate ==
    /\ product.st = "built"
    /\ \E q \in -1..(2 * header.nx + 1), r \in -1..(2 * header.ny + 1) :
            InterpolateAt(lonAt(header, q), latAt(header, r))

\* a file with a regular grid of nx longitudes from lon[1] to lon[2] and ny
\* latitudes from lat[1] to lat[2], or an irregular one whose cells lie
\* between these
Metadata(irregular, lon, nx, lat, ny, times, levels) ==
    [irregular |-> irregular,
     time |-> [size |-> times], levitation |-> [size |-> levels],
     longitude |-> [range |-> lon, size |-> nx],
     latitude |-> [range |-> lat, size |-> ny]]

\* files with a grid of the model's size
Files ==
    {Metadata(FALSE, lon, nx, lat, ny, 1, 1) :
        lon \in {<<0, 240>>, <<0, 360>>}, nx \in 2..MaxNx,
        lat \in {<<90, -90>>, <<-90, 90>>}, ny \in 2..MaxNy}
    \cup
    {Metadata(TRUE, <<0, w>>, 0, <<0, h>>, 0, 1, 1) :
        w \in 0..(MaxNx - 2), h \in 0..(MaxNy - 2)}

\* the arrays the worker returns for a file: of a regular grid every element
\* is a number; of an irregular one a cell of the raster may have stayed
\* empty
Samples(md) ==
    LET size == builderHeader(md).nx * builderHeader(md).ny
    IN {[kind |-> kind, uniform |-> FALSE, size |-> size, hole |-> hole,
         part |-> IF kind = "vector" THEN {"u", "v"} ELSE {"values"}] :
            kind \in {"scalar", "vector"},
            hole \in IF md.irregular THEN -1..(size - 1) ELSE {-1}}

\* a product is about to be created from a file, the selected indices
\* being valid
InitGrid ==
    /\ InitAgents /\ NoGrid /\ NoMore
    /\ attr = [heightIndex |-> 0, timeIndex |-> 0]
    /\ overlayDef = [height |-> TRUE, time |-> TRUE]
    /\ metadata \in Files
    /\ samples \in Samples(metadata)
    /\ product = [st |-> "none", indices |-> <<>>]
    /\ fetched = <<>>

NextGrid ==
    \/ CreateGeneric
    \/ CreateWind
    \/ \E ok \in BOOLEAN : Build(ok)
    \/ Interpolate

SpecGrid == InitGrid /\ [][NextGrid]_vars

\* the generic product is about to be created, the height and time indices
\* being those of the hash (any number) or -1 (none found)
InitProduct ==
    /\ InitAgents /\ NoGrid /\ NoMore
    /\ attr \in [heightIndex : -1..(MaxLevels + 1),
                  timeIndex : -1..(MaxTimes + 1)]
    /\ overlayDef \in [height : BOOLEAN, time : BOOLEAN]
    /\ \E times \in 1..MaxTimes, levels \in 1..MaxLevels :
            metadata = Metadata(FALSE, <<0, 240>>, 2, <<90, -90>>, 2,
                                times, levels)
    /\ samples \in {x \in Samples(metadata) : x.kind = "scalar"}
    /\ product = [st |-> "none", indices |-> <<>>]
    /\ fetched = <<>>

NextProduct ==
    \/ CreateGeneric
    \/ \E ok \in BOOLEAN : Build(ok)

SpecProduct == InitProduct /\ [][NextProduct]_vars

\* the file of 360 longitudes 0..359 and 181 latitudes between 90 and -90,
\* stored north to south or south to north, with u = 3 and v = 4 everywhere
InitWind ==
    /\ InitAgents /\ NoGrid /\ NoMore
    /\ attr = [heightIndex |-> 0, timeIndex |-> 0]
    /\ overlayDef = [height |-> TRUE, time |-> TRUE]
    /\ metadata \in {Metadata(FALSE, <<0, 359>>, 360, lat, 181, 1, 1) :
                        lat \in {<<90, -90>>, <<-90, 90>>}}
    /\ samples = [kind |-> "vector", uniform |-> TRUE, size |-> 360 * 181,
                  hole |-> -1, part |-> {}]
    /\ product = [st |-> "none", indices |-> <<>>]
    /\ fetched = <<>>

\* whole degrees inside the bounds of that file
WindLons == {lon \in 0..359 : lon % 30 = 0 \/ lon >= 358}

WindLats == {lat \in -90..90 : lat % 15 = 0}

InterpolateWind ==
    \E lon \in WindLons, lat \in WindLats : InterpolateAt(Q(lon), Q(lat))

NextWind ==
    \/ CreateWind
    \/ \E ok \in BOOLEAN : Build(ok)
    \/ InterpolateWind

SpecWind == InitWind /\ [][NextWind]_vars

(***************************************************************************)
(* The selection of the products: productsFor of products.js and           *)
(* buildGrids of grid-agent.js                                             *)
(***************************************************************************)

\* ids of the overlays getAvailableOverlays can find in a file: the two
\* special ones and two variables shown by the generic product, "tas"
\* defined on height and time, "orog" on neither
OverlayIds == {"wind", "temp", "tas", "orog"}

\* attr.overlayType: an id, "off", or the "default" of a hash without one
OverlayTypes == OverlayIds \cup {"off", "default"}

\* definedDimensions of a generic overlay
definedDimensions(id) ==
    [height |-> id = "tas", time |-> id = "tas"]

FACTORIES_generic_first == <<"temp", "generic", "wind", "off">>

\* the keys of FACTORIES in the order _.values lists them
FACTORIES == <<"wind", "temp", "generic", "off">>

\* FACTORIES[f].matches({availableOverlays, ...attr})
matches(f, c) ==
    CASE f = "wind" -> "wind" \in c.availableOverlays
      [] f = "temp" -> c.overlayType = "temp"
      [] f = "generic" -> c.overlayType \notin {"off", "temp", "wind"}
      [] f = "off" -> c.overlayType = "off"

thrown == [t |-> "thrown", list |-> <<>>]

buildProduct(f, fieldOf, typeOf) ==
    [t |-> "product", factory |-> f, field |-> fieldOf, type |-> typeOf]

\* FACTORIES[f].create(attr, metadata): a product, null, or an exception
create(f, c) ==
    LET noHeight == c.heightIndex = -1
        noTime == c.timeIndex = -1 \/ c.times <= c.timeIndex
    IN CASE f = "wind" ->
                IF noHeight \/ noTime THEN thrown
                ELSE buildProduct(f, "vector", "wind")
         [] f = "temp" ->
                IF noHeight \/ noTime THEN thrown
                ELSE buildProduct(f, "scalar", "temp")
         [] f = "generic" ->
                \* overlayDef is undefined if no overlay has this id:
                \* overlayDef.definedDimensions is a TypeError
                IF c.overlayType \notin c.availableOverlays THEN thrown
                ELSE LET def == definedDimensions(c.overlayType)
                     IN IF def.height /\ noHeight THEN thrown
                        ELSE IF def.time /\ noTime THEN thrown
                        ELSE buildProduct(f, "scalar", "temp")
         [] f = "off" -> [t |-> "null", list |-> <<>>]

\* productsFor(attributes, metadata)
productsFor(c) ==
    LET Matching(f) == matches(f, c)
        matched == SelectSeq(FACTORIES, Matching)
        created == [i \in 1..Len(matched) |-> create(matched[i], c)]
        Value(x) == x.t # "null"
    IN IF \E i \in 1..Len(created) : created[i] = thrown THEN thrown
       ELSE [t |-> "products", list |-> SelectSeq(created, Value)]

\* buildGrids, line 81: the products are selected
ProductsFor ==
    /\ selected.t = "none"
    /\ selected' = productsFor(config)
    /\ last' = Event("productsFor", "grid", 0)
    /\ UNCHANGED <<value, cancel, requested, pc, held, config>>
    /\ UNCHANGED <<fieldVars, animVars, productVars, gridVars, rasterVars>>
    /\ UNCHANGED <<placeVars, handler, workerVars, particleVars, download,
                 worker>>

\* new GridSelection(...builtProducts): the first is primary, the second
\* overlay, further ones are dropped
GridSelection(builtProducts) ==
    [t |-> "GridSelection", list |-> builtProducts,
     primary |-> builtProducts[1].factory,
     overlay |-> IF Len(builtProducts) > 1 THEN builtProducts[2].factory
                 ELSE "undefined",
     hasVectorField |-> builtProducts[1].field = "vector"]

\* buildGrids, lines 82 to 93: every product is built (ok) and the grids
\* are put into a selection; a build that fails rejects the task
BuildGrids(ok) ==
    /\ selected.t = "products"
    /\ selected' =
         IF ~ok /\ Len(selected.list) > 0 THEN thrown
         ELSE IF Len(selected.list) = 0
              THEN [t |-> "EmptyGridSelection", list |-> <<>>,
                    hasVectorField |-> FALSE]
              ELSE GridSelection(selected.list)
    /\ last' = Event("buildGrids", "grid", 0)
    /\ UNCHANGED <<value, cancel, requested, pc, held, config>>
    /\ UNCHANGED <<fieldVars, animVars, productVars, gridVars, rasterVars>>
    /\ UNCHANGED <<placeVars, handler, workerVars, particleVars, download,
                 worker>>

\* the attributes of the hash and the overlays of the file
InitSelect ==
    /\ InitAgents /\ NoProduct /\ NoGrid
    /\ config \in [overlayType : OverlayTypes,
                    heightIndex : {-1, 0},
                    timeIndex : -1..MaxTimes,
                    times : 1..MaxTimes,
                    availableOverlays : SUBSET OverlayIds]
    /\ selected = [t |-> "none"]
    /\ NoRaster /\ NoPlaces /\ NoThrow /\ NoCalls /\ NoDownload /\ NoParticles

NextSelect ==
    \/ ProductsFor
    \/ \E ok \in BOOLEAN : BuildGrids(ok)

SpecSelect == InitSelect /\ [][NextSelect]_vars

(***************************************************************************)
(* The rasters of irregular grids: ArrayGrid of array-grid.js and          *)
(* averageGrid of products.js                                              *)
(***************************************************************************)

\* new ArrayGrid(width, height) with the cells in Filled set by setAt, the
\* others left undefined; cell (x, y) is element width * y + x of this.grid
ArrayGrid(width, height, Filled) ==
    [width |-> width, height |-> height,
     grid |-> [i \in 0..(width * height - 1) |->
                  IF i \in Filled THEN Q(i * i + 1) ELSE Absent]]

\* grid.getAt({x, y}): null outside the raster, which like undefined is not
\* a number
getAt(r, x, y) ==
    IF x < 0 \/ x >= r.width \/ y < 0 \/ y >= r.height THEN Absent
    ELSE r.grid[r.width * y + x]

\* grid.setAt({x, y}, value)
setAt(r, x, y, v) ==
    [r EXCEPT !.grid = [@ EXCEPT ![r.width * y + x] = v]]

\* the four cells averageAt looks at, as [x + 1, y], [x, y + 1], [x - 1, y],
\* [x, y - 1]
around(x, y) ==
    <<(<<x + 1, y>>), (<<x, y + 1>>), (<<x - 1, y>>), (<<x, y - 1>>)>>

\* valuesAround of averageAt: the values of these cells that are != null
valuesAround(r, x, y) ==
    LET Filled(p) == IsNum(getAt(r, p[1], p[2]))
        cells == SelectSeq(around(x, y), Filled)
    IN [i \in 1..Len(cells) |-> getAt(r, cells[i][1], cells[i][2])]

RECURSIVE Sum(_)
\* valuesAround.reduce((a, b) => a + b)
Sum(vs) ==
    IF Len(vs) = 1 THEN vs[1] ELSE Add(vs[1], Sum(Tail(vs)))

averageAtAny(r, x, y) ==
    LET vs == valuesAround(r, x, y)
    IN IF Len(vs) > 0 THEN setAt(r, x, y, Div(Sum(vs), Q(Len(vs))))
       ELSE r

\* averageAt(x, y) of averageGrid
averageAt(r, x, y) ==
    LET vs == valuesAround(r, x, y)
    IN IF Len(vs) > 1 THEN setAt(r, x, y, Div(Sum(vs), Q(Len(vs))))
       ELSE r

\* the rows in the order the two inner loops visit them: from the middle
\* row up to the last one, then from the row below the middle down to 0
rowOrder(height) ==
    LET mid == height \div 2
    IN [i \in 1..height |-> IF i <= height - mid THEN mid + i - 1
                            ELSE height - i]

\* the cells in the order averageGrid visits them, column by column
scanOrder(r) ==
    [i \in 1..(r.width * r.height) |->
        <<(i - 1) \div r.height, rowOrder(r.height)[((i - 1) % r.height) + 1]>>]

RECURSIVE scannedAll(_, _)
\* a scan that averages the cells it visits whether they are empty or not
scannedAll(r, n) ==
    IF n = 0 THEN r
    ELSE LET p == scanOrder(r)[n]
         IN averageAt(scannedAll(r, n - 1), p[1], p[2])

RECURSIVE scanned(_, _)
\* the raster after averageGrid has visited the first n cells of its order
scanned(r, n) ==
    IF n = 0 THEN r
    ELSE LET s == scanned(r, n - 1)
             p == scanOrder(r)[n]
         IN IF IsNum(getAt(s, p[1], p[2])) THEN s
            ELSE averageAt(s, p[1], p[2])

\* averageGrid(grid)
averageGrid(r) == scanned(r, r.width * r.height)

\* averageGrid runs on the raster
AverageGrid ==
    /\ passes < MaxPasses
    /\ before' = raster
    /\ raster' = averageGrid(raster)
    /\ passes' = passes + 1
    /\ last' = Event("averageGrid", "grid", 0)
    /\ UNCHANGED <<value, cancel, requested, pc, held>>
    /\ UNCHANGED <<fieldVars, animVars, productVars, gridVars, selectVars>>
    /\ UNCHANGED <<placeVars, handler, workerVars, particleVars, download,
                 worker>>

\* a raster some of whose cells the source cells of the file have set
InitRaster ==
    /\ InitAgents /\ NoProduct /\ NoGrid /\ NoSelection
    /\ \E width \in 1..MaxWidth, height \in 1..MaxHeight :
         \E Filled \in SUBSET (0..(width * height - 1)) :
            raster = ArrayGrid(width, height, Filled)
    /\ before = [none |-> TRUE]
    /\ passes = 0
    /\ NoPlaces /\ NoThrow /\ NoCalls /\ NoDownload /\ NoParticles

NextRaster == AverageGrid

SpecRaster == InitRaster /\ [][NextRaster]_vars

(***************************************************************************)
(* The raster of an irregular grid: getIrregularGridDescription of         *)
(* products.js and degreeToIndexWithStepCount of math.js.  Latitudes and   *)
(* longitudes are taken in degrees, as convertLatRadianArray and           *)
(* convertLonRadianArray return them.                                      *)
(***************************************************************************)

\* a <= b
AtMost(a, b) == a[1] * b[2] <= b[1] * a[2]

\* fastArrayMin(arr) and fastArrayMax(arr)
fastArrayMin(arr) ==
    LET i == CHOOSE i \in DOMAIN arr :
                \A j \in DOMAIN arr : AtMost(arr[i], arr[j])
    IN arr[i]

fastArrayMax(arr) ==
    LET i == CHOOSE i \in DOMAIN arr :
                \A j \in DOMAIN arr : AtMost(arr[j], arr[i])
    IN arr[i]

\* Math.round, as an integer: halves go up
Round(a) == Floor(Add(a, Div(Q(1), Q(2))))

\* degreeToIndexWithStepCount(degree, min, max, steps)
degreeToIndexWithStepCount(degree, min, max, steps) ==
    LET floored == Floor(degree)
        difference == Sub(degree, Q(floored))
        base == floored - min
    IN Round(Add(Q(base * steps), Mul(difference, Q(steps))))

\* getIrregularGridDescription(latValues, lonValues)
getIrregularGridDescription(latValues, lonValues) ==
    LET latMin == Round(fastArrayMin(latValues))
        latMax == Round(fastArrayMax(latValues))
        lonMin == Round(fastArrayMin(lonValues))
        lonMax == Round(fastArrayMax(lonValues))
        gridHeight == (latMax - latMin) + 1
        gridWidth == (lonMax - lonMin) + 1
        stepping == 2
    IN [x |-> [min |-> lonMin, max |-> lonMax],
        y |-> [min |-> latMin, max |-> latMax],
        width |-> gridWidth * stepping,
        height |-> gridHeight * stepping,
        stepping |-> stepping]

latToGridPos(d, lat) ==
    degreeToIndexWithStepCount(lat, d.y.min, d.y.max, d.stepping)

lonToGridPos(d, lon) ==
    degreeToIndexWithStepCount(lon, d.x.min, d.x.max, d.stepping)

\* the loop of a builder over the cells of an irregular grid: the raster
\* is sized and each cell i is given the raster index {x: lonIndex,
\* y: latIndex}
PlaceCells ==
    /\ placed.t = "none"
    /\ LET d == getIrregularGridDescription(source.lat, source.lon)
       IN placed' =
            [t |-> "placed", width |-> d.width, height |-> d.height,
             at |-> [i \in DOMAIN source.lat |->
                        [x |-> lonToGridPos(d, source.lon[i]),
                         y |-> latToGridPos(d, source.lat[i])]]]
    /\ last' = Event("place", "grid", 0)
    /\ UNCHANGED <<value, cancel, requested, pc, held, source>>
    /\ UNCHANGED <<fieldVars, animVars, productVars, gridVars>>
    /\ UNCHANGED <<selectVars, rasterVars, handler, workerVars, particleVars, download,
                 worker>>

\* quarters of a degree between -MaxDegree and MaxDegree
Degrees == {Norm(n, 4) : n \in (-4 * MaxDegree)..(4 * MaxDegree)}

\* a file of two cells
InitPlaces ==
    /\ InitAgents /\ NoProduct /\ NoGrid /\ NoSelection /\ NoRaster /\ NoThrow
    /\ NoCalls /\ NoDownload /\ NoParticles
    /\ source \in [lat : [1..2 -> Degrees], lon : [1..2 -> Degrees]]
    /\ placed = [t |-> "none"]

NextPlaces == PlaceCells

SpecPlaces == InitPlaces /\ [][NextPlaces]_vars

(***************************************************************************)
(* Event handlers that throw: fail of runTask.  A handler that throws      *)
(* ends agent.trigger with its exception, which the catch of runTask (for  *)
(* "submit") or the last then of the chain (for "update" and "reject")     *)
(* hands to fail.                                                          *)
(***************************************************************************)

\* a fail that triggers nothing
failSilently(err, a) == [ev |-> "none", args |-> <<>>]

\* fail(err): the event triggered and its arguments
fail(err, a) == [ev |-> "fail", args |-> <<err, a>>]

\* a handler of event ev of agent a threw err: fail(err) is called, and a
\* handler of what it triggers returns or throws in turn (failThrows); its
\* exception leaves runTask, or is the rejection of the last promise of the
\* chain, and nothing is triggered for it
threwIn(ev, a, failThrows) ==
    LET f == fail("err", a)
    IN [threw |-> ev, emitted |-> f.ev, args |-> f.args,
        failHandler |-> IF f.ev = "none" THEN "none"
                        ELSE IF failThrows THEN "threw" ELSE "returned",
        after |-> "none"]

\* runTask: a handler of "submit" throws; the chain of promises is set up
\* by then
SubmitHandlerThrows(a, k, failThrows) ==
    /\ pc[a][k] = "debounced"
    /\ pc' = [pc EXCEPT ![a][k] = "args"]
    /\ last' = Event("runTask", a, k)
    /\ handler' = threwIn("submit", a, failThrows)
    /\ UNCHANGED <<value, cancel, requested, held>>
    /\ UNCHANGED <<fieldVars, animVars, productVars, gridVars>>
    /\ UNCHANGED <<selectVars, rasterVars, placeVars, workerVars, particleVars, download,
                 worker>>

\* accept(result) of a task not cancelled: value is assigned, and a handler
\* of "update" throws
UpdateHandlerThrows(a, k, failThrows) ==
    /\ pc[a][k] \in {"running", "aborted", "skipped"}
    /\ acceptUpdates(requested[a], k)
    /\ LET result == IF pc[a][k] = "skipped" THEN Null ELSE k
       IN /\ value' = [value EXCEPT ![a] = result]
          /\ last' = [Event("update", a, k) EXCEPT
                  !.arg = result, !.from = pc[a][k],
                  !.seen = valueInHandler(value[a], result)]
    /\ pc' = [pc EXCEPT ![a][k] = "settled"]
    /\ handler' = threwIn("update", a, failThrows)
    /\ UNCHANGED <<cancel, requested, held>>
    /\ UNCHANGED <<fieldVars, animVars, productVars, gridVars>>
    /\ UNCHANGED <<selectVars, rasterVars, placeVars, workerVars, particleVars, download,
                 worker>>

\* reject(err) of a task not cancelled: a handler of "reject" throws
RejectHandlerThrows(a, k, fromArgs, failThrows) ==
    /\ IF fromArgs THEN pc[a][k] = "args"
                   ELSE pc[a][k] \in {"running", "aborted"}
    /\ rejectEmits(requested[a], k)
    /\ pc' = [pc EXCEPT ![a][k] = "settled"]
    /\ last' = [Event("reject", a, k) EXCEPT
            !.arg = IF fromArgs THEN 1 ELSE 0, !.from = pc[a][k]]
    /\ handler' = threwIn("reject", a, failThrows)
    /\ UNCHANGED <<value, cancel, requested, held>>
    /\ UNCHANGED <<fieldVars, animVars, productVars, gridVars>>
    /\ UNCHANGED <<selectVars, rasterVars, placeVars, workerVars, particleVars, download,
                 worker>>

\* an agent whose handlers may throw
NextHandlers ==
    \/ Submit("agent")
    \/ Cancel("agent")
    \/ \E k \in Tasks : RunTask("agent", k)
    \/ \E k \in Tasks : Run("agent", k, FALSE)
    \/ \E k \in Tasks : Accept("agent", k)
    \/ \E k \in Tasks, c \in BOOLEAN : Reject("agent", k, c)
    \/ \E k \in Tasks, t \in BOOLEAN : SubmitHandlerThrows("agent", k, t)
    \/ \E k \in Tasks, t \in BOOLEAN : UpdateHandlerThrows("agent", k, t)
    \/ \E k \in Tasks, c, t \in BOOLEAN :
            RejectHandlerThrows("agent", k, c, t)

SpecHandlers == Init /\ [][NextHandlers]_vars

(***************************************************************************)
(* The calls of the web worker: getNextCallId and call of worker-api.js,   *)
(* and the worker's side, self.onmessage of DEVELOPING.md.  A call is      *)
(* identified by its number n in the order of the calls, which the code    *)
(* does not hold; its id is what getNextCallId returned for it.            *)
(***************************************************************************)

\* keys of requests, two of those the api sends
Keys == {"values", "attribute"}

\* getNextCallId(): the new callId
getNextCallId(id) == (id + 1) % IdSpace

\* call(worker, key, value): the listener is added and the request posted.
\* At most max calls are made in all, MaxEarly of them before the worker
\* has started, and MaxOutstanding await their response at a time.
Call(key, max) ==
    /\ issued < max
    /\ ~started => issued < MaxEarly
    /\ Len(inbox) + Len(outbox) < MaxOutstanding
    /\ callId' = getNextCallId(callId)
    /\ issued' = issued + 1
    /\ listeners' = listeners \cup
            {[n |-> issued', id |-> callId', key |-> key]}
    /\ inbox' = Append(inbox, [n |-> issued', id |-> callId', key |-> key])
    /\ last' = Event("call", "none", 0)
    /\ UNCHANGED <<started, orphaned, outbox, delivery>>
    /\ UNCHANGED <<value, cancel, requested, pc, held, restVars, particleVars>>

\* wasm_bindgen(...).then: the wasm is loaded and self.onmessage assigned
WorkerStarts ==
    /\ ~started
    /\ started' = TRUE
    /\ last' = Event("started", "none", 0)
    /\ UNCHANGED <<callId, issued, listeners, orphaned, inbox, outbox,
                   delivery>>
    /\ UNCHANGED <<value, cancel, requested, pc, held, restVars, particleVars>>

\* the message event of a request is dispatched in the worker.  With
\* self.onmessage assigned, the handler posts the result under the key of
\* the request (ok) or, the operation having thrown, an "error" message,
\* each with the id of the request; before that, the event has no handler
\* and the request is lost.
OnMessage(ok) ==
    /\ inbox # <<>>
    /\ inbox' = Tail(inbox)
    /\ LET ev == Head(inbox)
           response == [n |-> ev.n, id |-> ev.id,
                        key |-> IF ok THEN ev.key ELSE "error"]
       IN IF started THEN outbox' = Append(outbox, response)
          ELSE outbox' = outbox
    /\ last' = Event("onmessage", "none", 0)
    /\ UNCHANGED <<callId, issued, started, listeners, orphaned, delivery>>
    /\ UNCHANGED <<value, cancel, requested, pc, held, restVars, particleVars>>

\* the message event of a response is dispatched to the listeners of the
\* worker: caller(ev) of every call that still has one.  A listener with
\* the id of the message removes itself, and rejects its promise if the key
\* is "error", resolves it if the key is its own, and leaves it pending
\* otherwise.
Caller ==
    /\ outbox # <<>>
    /\ outbox' = Tail(outbox)
    /\ LET ev == Head(outbox)
           matched == {l \in listeners : ev.id = l.id}
           rejected == {l \in matched : ev.key = "error"}
           resolved == {l \in matched \ rejected : ev.key = l.key}
       IN /\ listeners' = listeners \ matched
          /\ orphaned' = orphaned \cup
                {l.n : l \in matched \ (rejected \cup resolved)}
          /\ delivery' = [of |-> ev.n,
                          resolved |-> {l.n : l \in resolved},
                          rejected |-> {l.n : l \in rejected}]
    /\ last' = Event("message", "none", 0)
    /\ UNCHANGED <<callId, issued, started, inbox>>
    /\ UNCHANGED <<value, cancel, requested, pc, held, restVars, particleVars>>

InitWorker ==
    /\ InitAgents /\ NoProduct /\ NoGrid
    /\ NoSelection /\ NoRaster /\ NoPlaces /\ NoThrow
    /\ NoCalls /\ NoDownload /\ NoParticles

\* enough calls for an id to come round to each of the early calls
NextWorker ==
    \/ \E key \in Keys : Call(key, IdSpace + MaxEarly)
    \/ WorkerStarts
    \/ \E ok \in BOOLEAN : OnMessage(ok)
    \/ Caller

SpecWorker == InitWorker /\ [][NextWorker]_vars

\* a few calls
NextWorkerFew ==
    \/ \E key \in Keys : Call(key, MaxCalls)
    \/ WorkerStarts
    \/ \E ok \in BOOLEAN : OnMessage(ok)
    \/ Caller

\* The wasm is loaded in the end, and a message posted is dispatched in the
\* end, by the event loop of the thread it was posted to.
SpecWorkerFair ==
    /\ InitWorker /\ [][NextWorkerFew]_vars
    /\ WF_vars(WorkerStarts)
    /\ WF_vars(\E ok \in BOOLEAN : OnMessage(ok))
    /\ WF_vars(Caller)

(***************************************************************************)
(* The particles of animate: createField, field.randomize, evolve and draw *)
(* of earth.js.  The field covers one row of pixels, y = 0, the vectors    *)
(* point along the row and have whole components, and one particle is      *)
(* followed; evolve and draw treat each particle by itself.                *)
(***************************************************************************)

\* the singleton for a pixel outside the field, the singleton for a hole in
\* the field, and a wind vector [u, v, m]
NULL_WIND_VECTOR == [t |-> "NULL_WIND_VECTOR", u |-> 0, v |-> 0]

HOLE_VECTOR == [t |-> "HOLE_VECTOR", u |-> 0, v |-> 0]

Wind(u, v) == [t |-> "wind", u |-> u, v |-> v]

\* what interpolateColumn can store for a pixel, NULL_WIND_VECTOR standing
\* for a pixel it stored nothing for
Vectors == {NULL_WIND_VECTOR, HOLE_VECTOR, Wind(1, 0), Wind(-1, 0)}

\* field(x, y) of createField
fieldAt(px, x, y) ==
    IF x \in DOMAIN px /\ y = 0 THEN px[x] ELSE NULL_WIND_VECTOR

\* field.isDefined(x, y): field(x, y)[2] !== null
isDefined(px, x, y) == fieldAt(px, x, y).t = "wind"

\* the pixels _.random(bounds.x, bounds.xMax) and _.random(bounds.y,
\* bounds.yMax) can give
Drawable(px) == {<<x, 0>> : x \in DOMAIN px}

RECURSIVE randomize(_, _)
\* field.randomize(o): the positions the loop can end on, safetyNet being
\* the value of the counter before a draw
randomize(px, safetyNet) ==
    LET Defined == {p \in Drawable(px) : isDefined(px, p[1], p[2])}
        Others == Drawable(px) \ Defined
    IN Defined \cup
         (IF Others = {} THEN {}
          ELSE IF safetyNet < 30 THEN randomize(px, safetyNet + 1)
          ELSE Others)

\* animate: particles.push(field.randomize({age: _.random(0,
\* MAX_PARTICLE_AGE)}))
Seed ==
    /\ particle.st = "none"
    /\ \E age \in 0..MAX_PARTICLE_AGE, p \in randomize(pixels, 0) :
         /\ particle' = [st |-> "live", x |-> p[1], y |-> p[2], age |-> age,
                         path |-> <<>>, bucket |-> FALSE]
         /\ randomized' = p
    /\ last' = Event("animate", "animator", 0)
    /\ UNCHANGED <<value, cancel, requested, pc, held, pixels>>
    /\ UNCHANGED <<restVars, workerVars>>

\* an evolve that marks a particle headed for an undefined pixel expired
\* where it is
evolveInPlace(px, o) ==
    LET v == fieldAt(px, o.x, o.y)
        xt == o.x + v.u
        yt == o.y + v.v
        moved ==
            IF v.t # "wind" THEN [o EXCEPT !.age = MAX_PARTICLE_AGE]
            ELSE IF isDefined(px, xt, yt)
                 THEN [o EXCEPT !.path = <<xt, yt>>, !.bucket = TRUE]
                 ELSE [o EXCEPT !.age = MAX_PARTICLE_AGE]
    IN [moved EXCEPT !.age = @ + 1]

\* the body of particles.forEach in evolve, for a particle o that was
\* relocated before if its age called for it
evolve(px, o) ==
    LET v == fieldAt(px, o.x, o.y)
        xt == o.x + v.u
        yt == o.y + v.v
        moved ==
            IF v.t # "wind" THEN [o EXCEPT !.age = MAX_PARTICLE_AGE]
            ELSE IF isDefined(px, xt, yt)
                 THEN [o EXCEPT !.path = <<xt, yt>>, !.bucket = TRUE]
                 ELSE [o EXCEPT !.x = xt, !.y = yt]
    IN [moved EXCEPT !.age = @ + 1]

\* draw, for a particle: one in a bucket is moved to the end of its path
draw(o) ==
    IF o.bucket THEN [o EXCEPT !.x = o.path[1], !.y = o.path[2]] ELSE o

\* frame: evolve() and draw().  The buckets are emptied; a particle older
\* than MAX_PARTICLE_AGE is relocated with age 0 first.
Tick ==
    /\ particle.st = "live"
    /\ LET o == [particle EXCEPT !.bucket = FALSE]
       IN IF o.age > MAX_PARTICLE_AGE
          THEN \E p \in randomize(pixels, 0) :
                 /\ randomized' = p
                 /\ particle' =
                      draw(evolve(pixels,
                             [o EXCEPT !.x = p[1], !.y = p[2], !.age = 0]))
          ELSE /\ randomized' = <<>>
               /\ particle' = draw(evolve(pixels, o))
    /\ last' = Event("tick", "animator", 0)
    /\ UNCHANGED <<value, cancel, requested, pc, held, pixels>>
    /\ UNCHANGED <<restVars, workerVars>>

\* a field of up to MaxPixels pixels, no particle yet
InitParticles ==
    /\ InitAgents /\ NoProduct /\ NoGrid
    /\ NoSelection /\ NoRaster /\ NoPlaces /\ NoThrow /\ NoCalls /\ NoDownload
    /\ \E w \in 1..MaxPixels : pixels \in [0..(w - 1) -> Vectors]
    /\ particle = [st |-> "none"]
    /\ randomized = <<>>

NextParticles == Seed \/ Tick

SpecParticles == InitParticles /\ [][NextParticles]_vars

(***************************************************************************)
(* Loading a file: the tasks loadFile and downloadFile of fileAgent, load, *)
(* loadRemote and initForFile of the api of worker-api.js, and, in the     *)
(* worker, WorkerState and self.onmessage of DEVELOPING.md.  The worker    *)
(* has started.  The file of task k of fileAgent is written k.             *)
(*                                                                         *)
(* download[k].st:                                                         *)
(*   "none"       nothing submitted                                        *)
(*   "submitted"  the task function has not been applied                   *)
(*   "load", "loadRemote", "variables", "dimensions"                       *)
(*                the call of that key awaits its response                 *)
(*   "returned"   the task function returned the descriptor of the file    *)
(*   "threw"      the task function threw                                  *)
(***************************************************************************)

\* what a file is, as far as loading it goes: it parses as NetCDF or not,
\* and the server of a remote file answers HEAD with "Accept-Range: bytes"
\* or not and with a Content-Length or not
LocalFiles ==
    {[key |-> "load", acceptRange |-> TRUE, contentLength |-> TRUE,
      netcdf |-> n] : n \in BOOLEAN}
RemoteFiles ==
    {[key |-> "loadRemote", acceptRange |-> r, contentLength |-> l,
      netcdf |-> n] : r, l, n \in BOOLEAN}

\* call(worker, key, value) by task k: the request is posted
post(k, key) == [worker EXCEPT !.inbox = Append(@, [k |-> k, key |-> key])]

\* fileAgent.submit(loadFile, api, file), on a drop of a file, and
\* fileAgent.submit(downloadFile, api, attr), on a change of the "file"
\* attribute
SubmitLoad(f) ==
    /\ submit({"file"}, value, pc)
    /\ last' = Event("submit", "file", cancel'["file"])
    /\ download' = [download EXCEPT ![cancel'["file"]] =
            [st |-> "submitted", file |-> f, loaded |-> FALSE,
             result |-> "none"]]
    /\ UNCHANGED <<value, worker, otherVars>>

\* run(args) of loadFile or downloadFile: the task function calls
\* worker.load(file) or worker.loadRemote(filename), which posts the request
ApplyLoad(k) ==
    /\ run("file", k, FALSE)
    /\ IF last'.ev = "apply"
       THEN /\ download' = [download EXCEPT ![k].st = download[k].file.key]
            /\ worker' = post(k, download[k].file.key)
       ELSE UNCHANGED <<download, worker>>
    /\ UNCHANGED otherVars

\* WorkerState.closeFile() if a file is open, as loadFile and loadRemote
\* begin
closeFile(file) == 0

\* WorkerState.loadFile(file): the value posted back, "throws" if load_file
\* threw
loadFile(f) == IF f.netcdf THEN "null" ELSE "throws"

\* WorkerState.loadRemote(url): the value posted back, "throws" if
\* load_remote threw
loadRemote(f) ==
    IF ~f.acceptRange THEN "Does not support partial content"
    ELSE IF f.contentLength
    THEN IF f.netcdf THEN "undefined" ELSE "throws"
    ELSE "Could not get content length"

\* self.onmessage: the request at the head of the queue is served and its
\* response posted, an "error" message if the operation threw.  getVariables
\* and getDimensions read this.file and throw if there is none.
OnRequest ==
    /\ worker.inbox # <<>>
    /\ LET ev == Head(worker.inbox)
           f == download[ev.k].file
           result ==
               CASE ev.key = "load" -> loadFile(f)
                 [] ev.key = "loadRemote" -> loadRemote(f)
                 [] OTHER -> IF worker.file = 0 THEN "throws" ELSE "list"
           opened == ev.key \in {"load", "loadRemote"}
                        /\ result \in {"null", "undefined"}
           file == IF ev.key \in {"load", "loadRemote"}
                   THEN IF opened THEN ev.k ELSE closeFile(worker.file)
                   ELSE worker.file
           response == [k |-> ev.k,
                        key |-> IF result = "throws" THEN "error" ELSE ev.key,
                        value |-> result]
       IN /\ worker' = [file |-> file, inbox |-> Tail(worker.inbox),
                        outbox |-> Append(worker.outbox, response)]
          /\ download' = [download EXCEPT ![ev.k].loaded = @ \/ opened]
    /\ last' = Event("onmessage", "file", Head(worker.inbox).k)
    /\ UNCHANGED <<value, cancel, requested, pc, held, otherVars>>

\* caller(ev) of the call task k awaits: an "error" message rejects the
\* call, which the task function turns into a throw of its own.  Otherwise
\* load or loadRemote returns a result that is not null (if(result != null)
\* return result), and goes on to initForFile if it is null, which calls
\* "variables" and then "dimensions"; the task function, which does not
\* look at what load or loadRemote returned, then returns the descriptor of
\* the file.
OnResponse ==
    /\ worker.outbox # <<>>
    /\ LET ev == Head(worker.outbox)
           k == ev.k
           then ==
               CASE ev.key = "error" -> "threw"
                 [] ev.key \in {"load", "loadRemote"} ->
                        IF ev.value \notin {"null", "undefined"}
                        THEN "returned"
                        ELSE "variables"
                 [] ev.key = "variables" -> "dimensions"
                 [] OTHER -> "returned"
           sent == IF then \in {"variables", "dimensions"}
                   THEN post(k, then) ELSE worker
       IN /\ download' = [download EXCEPT ![k].st = then,
                                          ![k].result = ev.value]
          /\ worker' = [sent EXCEPT !.outbox = Tail(worker.outbox)]
    /\ last' = Event("message", "file", Head(worker.outbox).k)
    /\ UNCHANGED <<value, cancel, requested, pc, held, otherVars>>

\* the promise of the task function resolved: accept(result)
AcceptFile(k) ==
    /\ download[k].st = "returned"
    /\ Accept("file", k)

\* the promise of the task function was rejected: reject(err)
RejectFile(k) ==
    /\ download[k].st = "threw"
    /\ Reject("file", k, FALSE)

InitDownload == InitAgents /\ NoProduct /\ NoGrid /\ NoMore

NextDownload ==
    \/ \E f \in LocalFiles \cup RemoteFiles : SubmitLoad(f)
    \/ \E k \in Tasks : RunTask("file", k)
    \/ \E k \in Tasks : ApplyLoad(k)
    \/ OnRequest
    \/ OnResponse
    \/ \E k \in Tasks : AcceptFile(k)
    \/ \E k \in Tasks : RejectFile(k)

SpecDownload == InitDownload /\ [][NextDownload]_vars

(***************************************************************************)
(* Properties                                                              *)
(***************************************************************************)

\* this step is the call of accept for task k of agent a
AcceptCalled(a, k) ==
    /\ last'.ev \in {"update", "discard"}
    /\ last'.a = a /\ last'.k = k
    /\ pc[a][k] \in Live /\ pc'[a][k] = "settled"

\* this step is the call of reject for task k of agent a
RejectCalled(a, k) ==
    /\ last'.ev \in {"reject", "suppress"}
    /\ last'.a = a /\ last'.k = k
    /\ pc[a][k] \in Live /\ pc'[a][k] = "settled"

\* this step is a call of cancel() on agent a
CancelCalled(a) == last'.ev \in {"cancel", "abort"} /\ last'.a = a

\* C1: once a later task has been submitted, the settling of an earlier task
\* leaves value() alone, and value() changes only to the result of the most
\* recently submitted task.
C1_OnlyLatestUpdates ==
    [][\A a \in Agents :
        /\ \A k \in Tasks :
            (k < cancel[a] /\ (AcceptCalled(a, k) \/ RejectCalled(a, k)))
                => value'[a] = value[a]
        /\ value'[a] # value[a] =>
            (value'[a] = cancel[a] /\ AcceptCalled(a, cancel[a]))]_vars

\* task A resolves after the later task B has already updated the value
C1_Witness ==
    /\ last.ev = "discard" /\ last.from = "running" /\ last.arg = last.k
    /\ last.k < cancel[last.a]
    /\ value[last.a] = cancel[last.a]

\* C2: every token issued so far, except the one in agent.cancel, has its
\* requested flag set, settled or not.
C2_OneCurrentToken ==
    \A a \in Agents : \A t \in 0..cancel[a] :
        t # cancel[a] => t \in requested[a]

\* two superseded tasks, neither settled
C2_Witness ==
    /\ cancel["agent"] = 3
    /\ pc["agent"][1] = "running" /\ pc["agent"][2] = "args"
    /\ {0, 1, 2} \subseteq requested["agent"]

\* C3: of the submissions made before the debounce timer fires only the last
\* is run: at most the current token's task waits in the debounce, a submit
\* drops the one that waited, a dropped task is never run, and the timer runs
\* the last submission.
C3_Coalesced ==
    [][\A a \in Agents :
        /\ \A k \in Tasks :
            /\ pc'[a][k] = "debounced" => k = cancel'[a]
            /\ (pc[a][k] = "debounced" /\ cancel'[a] # cancel[a])
                    => pc'[a][k] = "dropped"
            /\ pc[a][k] = "dropped" => pc'[a][k] = "dropped"
        /\ (last'.ev = "runTask" /\ last'.a = a) => last'.k = cancel[a]]_vars

\* three submissions in a row, the timer then runs the third only
C3_Witness ==
    /\ pc["agent"][1] = "dropped" /\ pc["agent"][2] = "dropped"
    /\ last.ev = "runTask" /\ last.a = "agent" /\ last.k = 3

\* C4: accept on a task that is not cancelled sets value() to the result and
\* triggers "update" with it, and the handlers read the result from value().
C4_UpdateAfterAssignment ==
    [][\A a \in Agents : \A k \in Tasks :
        (AcceptCalled(a, k) /\ k \notin requested[a]) =>
            /\ last'.ev = "update"
            /\ value'[a] = last'.arg
            /\ last'.seen = last'.arg
            /\ last'.arg = (IF pc[a][k] = "skipped" THEN Null ELSE k)]_vars

\* a second result replaces the first
C4_Witness ==
    /\ last.ev = "update" /\ last.arg = 2 /\ value[last.a] = 2
    /\ pc[last.a][1] = "settled"

\* C5: reject on a task that is not cancelled triggers "reject", no "update",
\* and value() is still what it was when the task was submitted.
C5_RejectKeepsValue ==
    [][\A a \in Agents : \A k \in Tasks :
        (RejectCalled(a, k) /\ k \notin requested[a]) =>
            /\ last'.ev = "reject"
            /\ value'[a] = value[a]
            /\ value'[a] = held[a][k]]_vars

\* a task fails after an earlier task gave the agent a value
C5_Witness ==
    /\ last.ev = "reject" /\ last.from = "running"
    /\ value[last.a] = 1 /\ last.k = 2

\* C6: reject on a cancelled task triggers nothing and leaves value() alone.
C6_CancelledFailureSuppressed ==
    [][\A a \in Agents : \A k \in Tasks :
        (RejectCalled(a, k) /\ k \in requested[a]) =>
            /\ last'.ev = "suppress"
            /\ last'.subs = {}
            /\ value' = value]_vars

\* the current task, cancelled by cancel(), fails
C6_Witness ==
    /\ last.ev = "suppress" /\ last.k = cancel[last.a]

\* C7: a task cancelled before run is called is never applied.
C7_CancelledNeverInvoked ==
    [][\A a \in Agents : \A k \in Tasks :
        /\ (pc[a][k] \in {"debounced", "args"} /\ k \in requested[a])
                => pc'[a][k] \notin {"running", "aborted"}
        /\ pc[a][k] \in {"skipped", "dropped", "settled"}
                => pc'[a][k] \notin {"running", "aborted"}]_vars

\* run returned null for the current task, cancelled by cancel()
C7_Witness ==
    /\ last.ev = "null" /\ last.k = cancel[last.a]

\* C8: this.cancel() called by a task sets the task's own flag unless the
\* task was superseded, and its result is then discarded.
C8_SelfAbortDiscarded ==
    [][\A a \in Agents : \A k \in Tasks :
        /\ pc'[a][k] = "aborted" => k \in requested'[a]
        /\ (pc[a][k] = "aborted" /\ AcceptCalled(a, k)) =>
            /\ last'.ev = "discard"
            /\ value' = value]_vars

\* the current task aborts itself and then resolves
C8_Witness ==
    /\ last.ev = "discard" /\ last.from = "aborted"
    /\ last.k = cancel[last.a]

\* C9: cancel() sets the flag of the current token, returns the agent and
\* changes nothing else; a second call in succession changes nothing at all.
C9_CancelIdempotent ==
    [][\A a \in Agents : CancelCalled(a) =>
        /\ cancel[a] \in requested'[a]
        /\ last'.ret = a
        /\ value' = value /\ cancel' = cancel
        /\ \A x \in Agents : \A t \in 0..MaxTasks :
                (t \in requested'[x]) = (t \in requested[x] \/ (x = a /\ t = cancel[a]))
        /\ last'.n >= 2 => requested' = requested]_vars

\* cancel() called twice in succession by a client
C9_Witness ==
    /\ last.ev = "cancel" /\ last.n = 2

\* agents that follow agent a in the pipeline
Downstream(a) ==
    CASE a = "file" -> {"metadata", "grid", "field"}
      [] a = "metadata" -> {"grid", "field"}
      [] a = "grid" -> {"field"}
      [] OTHER -> {}

\* C10: the rejection of a task of fileAgent, metadataAgent or gridAgent
\* submits nothing and leaves every downstream agent as it was.
C10_RejectionStopsPipeline ==
    [][\A a \in Pipeline : \A k \in Tasks :
        RejectCalled(a, k) =>
            /\ last'.subs = {}
            /\ \A d \in Downstream(a) :
                /\ value'[d] = value[d]
                /\ cancel'[d] = cancel[d]
                /\ requested'[d] = requested[d]
                /\ pc'[d] = pc[d]]_vars

\* metadataAgent's task is rejected while gridAgent holds a grid
C10_Witness ==
    /\ last.ev = "reject" /\ last.a = "metadata"
    /\ value["grid"] # Undefined

\* C11: once the token of a task of fieldAgent is requested, the next call of
\* batchInterpolate interpolates nothing and resolves, no column is added by
\* any step, and a field that lacks columns is never made fieldAgent's value
\* nor the argument of an "update".
C11_PartialFieldDiscarded ==
    [][\A k \in Tasks :
        /\ k \in requested["field"] => columns'[k] = columns[k]
        /\ (k \in requested["field"] /\ batch[k] = "sleeping"
                /\ last'.ev = "batch" /\ last'.k = k)
            => batch'[k] = "resolved"
        /\ (AcceptCalled("field", k) /\ batch[k] = "resolved"
                /\ columns[k] < MaxColumns)
            => (last'.ev = "discard" /\ value' = value)]_vars

\* cancelled between two batches, the promise resolved with a field that
\* lacks columns and accept was called with it
C11_Witness ==
    /\ last.ev = "discard" /\ last.a = "field"
    /\ batch[last.k] = "resolved"
    /\ columns[last.k] > 0 /\ columns[last.k] < MaxColumns

\* C12: once the token animate holds is requested, no frame of its loop
\* evolves or draws and none is scheduled, and the frame that is pending
\* releases the field and ends the loop.
C12_CancelledAnimationStops ==
    /\ [][\A k \in Tasks :
            (loop[k] # "none" /\ animCancel[k] \in requested["animator"]) =>
                /\ frames'[k] = frames[k]
                /\ loop'[k] = "scheduled" => field'[k] = field[k]
                /\ loop'[k] # loop[k] =>
                        (loop'[k] = "stopped" /\ field'[k] = "released")]_vars
    /\ \A k \in Tasks :
            (loop[k] = "scheduled" /\ animCancel[k] \in requested["animator"])
                ~> (loop[k] = "stopped" /\ field[k] = "released")

\* a loop that drew a frame, was cancelled and has released its field
C12_Witness ==
    \E k \in Tasks :
        /\ loop[k] = "stopped" /\ frames[k] >= 1
        /\ field[k] = "released"
        /\ last.ev = "frame" /\ last.k = k

C14_HeightIndexChecked ==
    (product.st # "none"
        /\ attr.heightIndex \notin 0..(metadata.levitation.size - 1))
    => (product.st = "error" /\ fetched = <<>>)

\* C14: the worker was asked for values although the height index is not
\* one of the file: the case is reached
C14_Reached ==
    /\ overlayDef.height
    /\ attr.heightIndex >= metadata.levitation.size
    /\ fetched # <<>>

\* row r of the grid holds the samples of source row j
RowHolds(r, j) ==
    \A c \in 0..(header.nx - 1) :
        at(grid, samples, r, c) = data(samples, j * header.nx + c)

\* C15 as stated: source row 0 is stored at row ny-1 if header.flipped is
\* false and at row 0 if it is true.
C15_RowsAsStated ==
    product.st = "built" =>
        IF header.flipped THEN RowHolds(0, 0)
        ELSE RowHolds(header.ny - 1, 0)

\* C15: source row j is stored at row ny-1-j if header.flipped is true and
\* at row j if it is false, so source row 0 is at row ny-1 and at row 0.
C15_RowsStoredByFlipped ==
    product.st = "built" =>
        \A j \in 0..(header.ny - 1) :
            RowHolds(IF header.flipped THEN header.ny - 1 - j ELSE j, j)

\* a grid of a file stored south to north: its first row is the last
C15_Witness ==
    /\ product.st = "built" /\ header.flipped /\ header.ny >= 2
    /\ RowHolds(header.ny - 1, 0) /\ ~RowHolds(0, 0)

AtLattice(i, j) ==
    /\ product.st = "built" /\ point # <<>>
    /\ point = <<lonAt(header, 2 * i), latAt(header, 2 * j)>>

\* what interpolate makes of the sample x when it returns it unchanged
Returned(x) ==
    CASE x.t = "number" -> x
      [] x.t = "array" ->
            Array3(x.u, x.v, Sqrt(Add(Mul(x.u, x.u), Mul(x.v, x.v))))
      [] OTHER -> null

\* the sample is there, with both components if it is an array
Present(x) ==
    /\ x.t \in {"number", "array"}
    /\ IsNum(x.u)
    /\ x.t = "array" => IsNum(x.v)

\* C17 as stated: called at a lattice point, interpolate returns the value
\* stored there.
C17_LatticeAsStated ==
    \A i \in 0..(MaxNx * 2), j \in 0..(MaxNy * 2) :
        (AtLattice(i, j) /\ i < header.nx /\ j < header.ny)
            => returned = Returned(at(grid, samples, j, i))

\* C17: called at a lattice point that is within the bounds, interpolate
\* returns the value stored there if the samples it reads, (i, j), (i+1, j),
\* (i, (j+1) mod ny) and (i+1, (j+1) mod ny), are all present; on a grid that
\* is not continuous there is no column nx, and it returns null at every
\* lattice point of the last column.
C17_LatticeWithNeighbours ==
    \A i \in 0..(MaxNx * 2), j \in 0..(MaxNy * 2) :
        (AtLattice(i, j) /\ i < header.nx /\ j < header.ny
            /\ within(header, point[1], point[2])) =>
            /\ (/\ Present(at(grid, samples, j, i))
                /\ Present(at(grid, samples, j, i + 1))
                /\ Present(at(grid, samples, (j + 1) % header.ny, i))
                /\ Present(at(grid, samples, (j + 1) % header.ny, i + 1)))
               => returned = Returned(at(grid, samples, j, i))
            /\ (grid.len = header.nx /\ i = header.nx - 1)
               => returned = null

\* the lattice point of the last row, whose neighbours are those of row 0
C17_Witness ==
    \E i \in 0..MaxNx :
        /\ AtLattice(i, header.ny - 1)
        /\ i < header.nx
        /\ returned.t = "number"
        /\ returned = at(grid, samples, header.ny - 1, i)

\* the columns and rows of the samples interpolate reads at the point
Enclosing ==
    LET i == Div(floorMod(Sub(point[1], header.lo1), 360), header.dx)
        j == Div(Sub(header.la1, point[2]), header.dy)
    IN {<<Floor(j), Floor(i)>>, <<Floor(j), Floor(i) + 1>>,
        <<(Floor(j) + 1) % header.ny, Floor(i)>>,
        <<(Floor(j) + 1) % header.ny, Floor(i) + 1>>}

\* C18: at a point within the bounds interpolate returns null if one of the
\* four samples is missing, an array being missing when u or v is.
C18_MissingGivesNull ==
    (product.st = "built" /\ point # <<>>
        /\ within(header, point[1], point[2])
        /\ \E e \in Enclosing :
                ~hasRow(grid, e[1]) \/ ~Present(at(grid, samples, e[1], e[2])))
    => returned = null

\* C18: an array without components was interpolated: the case is reached
C18_Reached ==
    /\ product.st = "built" /\ point # <<>>
    /\ samples.kind = "vector" /\ samples.hole >= 0
    /\ returned.t = "array" /\ returned.u = NaN

\* C19: interpolate returns null for a longitude below lo1 or above lo2 and
\* for a latitude below la2 or above la1.
C19_OutsideIsNull ==
    (product.st = "built" /\ point # <<>>
        /\ (\/ Less(point[1], header.lo1) \/ Less(header.lo2, point[1])
            \/ Less(point[2], header.la2) \/ Less(header.la1, point[2])))
    => returned = null

\* a longitude above lo2 that floorMod would wrap onto the grid
C19_Witness ==
    /\ product.st = "built" /\ point # <<>>
    /\ grid.len = header.nx + 1
    /\ Less(header.lo2, point[1])
    /\ ~Less(point[2], header.la2) /\ ~Less(header.la1, point[2])
    /\ returned = null

\* C20: the bounds of the wind product of that file are [0, 5] and
\* interpolate returns [3, 4, 5] at every point within the bounds.
C20_UniformWind ==
    product.st = "built" =>
        /\ bounds = <<Q(0), Q(5)>>
        /\ (point # <<>> /\ within(header, point[1], point[2]))
                => returned = Array3(Q(3), Q(4), Q(5))

\* C20: null at the easternmost longitude of the file: the case is reached
C20_Reached ==
    /\ product.st = "built" /\ point = <<Q(359), Q(0)>>
    /\ returned = null

\* C21: productsFor selects at most two products, at most one overlay
\* product besides the primary one, and if a wind overlay is available the
\* first product is the wind product, whose field is a vector field; the
\* selection buildGrids makes of them has that product for its primary
C21_AtMostTwoWindFirst ==
    /\ selected.t = "products" =>
         /\ Len(selected.list) <= 2
         /\ "wind" \in config.availableOverlays =>
              /\ Len(selected.list) >= 1
              /\ selected.list[1].factory = "wind"
              /\ selected.list[1].field = "vector"
              /\ \A i \in 2..Len(selected.list) :
                    selected.list[i].factory # "wind"
    /\ selected.t = "GridSelection" =>
         /\ Len(selected.list) <= 2
         /\ "wind" \in config.availableOverlays =>
              selected.primary = "wind" /\ selected.hasVectorField

\* C21: wind is available and a second product was selected with it
C21_Witness ==
    /\ selected.t = "GridSelection"
    /\ "wind" \in config.availableOverlays
    /\ selected.primary = "wind" /\ selected.overlay = "generic"

\* the cells of a raster that hold no value
Empty(r) == {i \in DOMAIN r.grid : ~IsNum(r.grid[i])}

\* the filled cells among the four neighbours of cell i of raster r
FilledAround(r, i) ==
    {j \in DOMAIN r.grid \ Empty(r) :
        LET dx == Abs((j % r.width) - (i % r.width))
            dy == Abs((j \div r.width) - (i \div r.width))
        IN dx + dy = 1}

\* the arithmetic mean of the values of a set of cells
RECURSIVE Total(_, _)
Total(r, S) ==
    IF S = {} THEN Q(0)
    ELSE LET j == CHOOSE j \in S : TRUE
         IN Add(r.grid[j], Total(r, S \ {j}))

Mean(r, S) == Div(Total(r, S), Q(Cardinality(S)))

\* the number of the visit of averageGrid to cell i
Visit(r, i) ==
    CHOOSE n \in 1..(r.width * r.height) :
        scanOrder(r)[n] = <<i % r.width, i \div r.width>>

\* C22: one pass of averageGrid over a raster with a single empty cell sets
\* that cell to the arithmetic mean of its filled neighbours if at least 2
\* of its 4 neighbours are filled; and in every raster an empty cell with 0
\* or 1 filled neighbours at the time it is visited remains empty
C22_FillsWithMean ==
    passes = 1 =>
        \A i \in Empty(before) :
            /\ (Empty(before) = {i} /\ Cardinality(FilledAround(before, i)) >= 2)
                  => raster.grid[i] = Mean(before, FilledAround(before, i))
            /\ LET s == scanned(before, Visit(before, i) - 1)
               IN Cardinality(FilledAround(s, i)) <= 1
                     => scanned(before, Visit(before, i)).grid[i] = Absent

\* C22: a raster whose single empty cell had 3 filled neighbours
C22_Witness ==
    /\ passes = 1
    /\ \E i \in DOMAIN before.grid :
          /\ Empty(before) = {i}
          /\ Cardinality(FilledAround(before, i)) = 3
          /\ raster.grid[i] = Mean(before, FilledAround(before, i))

\* C23: averageGrid is idempotent: a second pass over the result of a
\* first pass changes no cell
C23_Idempotent ==
    passes = 2 => raster.grid = before.grid

\* C23: a second pass changed nothing but cells the first pass left empty
C23_SecondPassOnlyFills ==
    passes = 2 =>
        \A i \in DOMAIN raster.grid :
            raster.grid[i] # before.grid[i] => i \in Empty(before)

\* cell i of the file lies at an extreme: its latitude is the least or the
\* greatest latitude, and its longitude the least or greatest longitude
AtExtreme(i) ==
    /\ source.lat[i] \in {fastArrayMin(source.lat), fastArrayMax(source.lat)}
    /\ source.lon[i] \in {fastArrayMin(source.lon), fastArrayMax(source.lon)}

\* C24: in the raster of an irregular grid, a cell at the least or greatest
\* latitude and longitude, from which the raster is sized, is given an
\* index with x in [0, width) and y in [0, height)
C24_ExtremesInside ==
    placed.t = "placed" =>
        \A i \in DOMAIN source.lat :
            AtExtreme(i) =>
                /\ 0 <= placed.at[i].x /\ placed.at[i].x < placed.width
                /\ 0 <= placed.at[i].y /\ placed.at[i].y < placed.height

\* C24: the indices never reach the width or the height; they fall below 0
\* only
C24_NeverBeyond ==
    placed.t = "placed" =>
        \A i \in DOMAIN source.lat :
            /\ -1 <= placed.at[i].x /\ placed.at[i].x < placed.width
            /\ -1 <= placed.at[i].y /\ placed.at[i].y < placed.height

Pending == {l.n : l \in listeners} \cup orphaned

\* C26: the promise of a call is settled only by the response to the
\* request of that call: the message dispatched, which answers request
\* delivery.of, resolves and rejects the promise of no other call
C26_SettledByOwnResponse ==
    delivery.of # 0 =>
        (delivery.resolved \cup delivery.rejected) \subseteq {delivery.of}

\* C26: two calls await their responses, and the response to one of them
\* has settled it
C26_Reached ==
    /\ delivery.of # 0 /\ delivery.resolved = {delivery.of}
    /\ listeners # {}

\* C27: every request sent to the worker is answered in the end, by its
\* result or by an "error" message, so that the promise of every call is
\* resolved or rejected in the end
C27_EveryCallSettles ==
    \A n \in 1..MaxCalls : (n \in Pending) ~> (n \notin Pending)

\* C27: a request the started worker has answered settles its call
C27_Reached ==
    /\ started /\ issued > 0 /\ Pending = {}

\* the pixel a particle o is headed for: its position plus the vector of
\* the field there
Target(o) ==
    LET v == fieldAt(pixels, o.x, o.y)
    IN <<o.x + v.u, o.y + v.v>>

\* this step is a tick in which the particle is live: it is not relocated
LiveTick ==
    /\ last'.ev = "tick" /\ particle.st = "live"
    /\ particle.age <= MAX_PARTICLE_AGE

\* C28: in a tick, a live particle whose target pixel is undefined in the
\* field is marked expired and keeps its position
C28_ExpiresInPlace ==
    [][(LiveTick /\ ~isDefined(pixels, Target(particle)[1],
                                Target(particle)[2]))
          => /\ particle'.age > MAX_PARTICLE_AGE
             /\ particle'.x = particle.x /\ particle'.y = particle.y]_vars

\* C28: in a tick, a live particle at a pixel where the field is defined,
\* whose target pixel is undefined, is moved to the target pixel, is put
\* in no bucket and ages by one; a live particle at a pixel where the field
\* is undefined keeps its position and is marked expired
C28_MovesThenExpires ==
    [][LiveTick =>
          /\ (/\ isDefined(pixels, particle.x, particle.y)
              /\ ~isDefined(pixels, Target(particle)[1], Target(particle)[2]))
                => /\ <<particle'.x, particle'.y>> = Target(particle)
                   /\ particle'.age = particle.age + 1
                   /\ ~particle'.bucket
          /\ ~isDefined(pixels, particle.x, particle.y)
                => /\ particle'.x = particle.x /\ particle'.y = particle.y
                   /\ particle'.age = MAX_PARTICLE_AGE + 1]_vars

\* C28: a tick has moved a live particle to a pixel where the field is
\* undefined; had it been there before, it would be marked expired now
C28_Witness ==
    /\ last.ev = "tick" /\ particle.st = "live" /\ randomized = <<>>
    /\ ~isDefined(pixels, particle.x, particle.y)
    /\ particle.age <= MAX_PARTICLE_AGE /\ ~particle.bucket

\* C29: a position field.randomize gives to a particle, seeded or
\* relocated, is a position where the field is defined
C29_RandomizedIsDefined ==
    randomized # <<>> => isDefined(pixels, randomized[1], randomized[2])

\* C29: a particle was relocated to a pixel where the field is undefined
C29_Reached ==
    /\ last.ev = "tick" /\ randomized # <<>>
    /\ ~isDefined(pixels, randomized[1], randomized[2])
    /\ \E x \in DOMAIN pixels : isDefined(pixels, x, 0)

\* C30: this.cancel() called by a task that was superseded, a newer task
\* having been submitted to the agent while it ran, does not cancel the
\* newer task: the flag of the current token is left as it was, so that
\* the result of the newer task still updates value()
C30_StaleCancelSparesNewer ==
    [][\A a \in Agents :
        (last'.ev = "abort" /\ last'.a = a /\ last'.k < cancel[a]) =>
            (cancel[a] \in requested'[a]) = (cancel[a] \in requested[a])]_vars

\* C30: the newer task, not cancelled by anyone else, resolved after the
\* superseded task had called this.cancel(), and its result was discarded
C30_Reached ==
    /\ last.ev = "discard" /\ last.k = cancel[last.a]
    /\ last.from = "running"
    /\ \E k \in Tasks : k < last.k /\ pc[last.a][k] = "aborted"

\* C31: whenever buildGrids is applied, metadataAgent.value() exists and is
\* the result of the buildMetadata task that the last "update" of fileAgent
\* submitted, that is, it was derived from the file fileAgent now holds.
\* Every submission to metadataAgent is made by an "update" of fileAgent, so
\* the metadata of the current file is the result of the last task submitted.
C31_GridBuildHasCurrentMetadata ==
    [][(last'.ev = "apply" /\ last'.a = "grid") =>
            /\ value["metadata"] \notin {Undefined, Null}
            /\ value["metadata"] = cancel["metadata"]]_vars

\* buildGrids was applied while buildMetadata for the file was not done
C31_Reached ==
    /\ last.ev = "apply" /\ last.a = "grid"
    /\ value["file"] \notin {Undefined, Null}
    /\ value["metadata"] # cancel["metadata"]

\* C32: fileAgent updates its value to the descriptor of a file only if the
\* worker loaded that file; when the worker has reported that the remote
\* load failed, the task is rejected and no "update" is emitted
C32_UpdateOnlyIfLoaded ==
    (last.ev = "update" /\ last.a = "file") =>
        /\ download[last.k].loaded
        /\ download[last.k].result \notin
              {"Does not support partial content",
               "Could not get content length"}

\* C32: fileAgent emitted "update" for a remote file of which the worker
\* had reported that it could not load it
C32_Reached ==
    /\ last.ev = "update" /\ last.a = "file"
    /\ download[last.k].file.key = "loadRemote"
    /\ ~download[last.k].loaded
    /\ worker.file = 0

Batched(k) ==
    \/ last'.ev = "batch" /\ last'.k = k
    \/ last'.ev = "apply" /\ last'.a = "field" /\ last'.k = k
          /\ batch'[k] # "null"

\* the pass of task k is never cancelled
NeverCancelled(k) ==
    [](batch[k] # "none" => taskCancel[k] \notin requested["field"])

\* C34, as stated: every call of batchInterpolate of a pass that is not
\* cancelled interpolates at least one new column, and a pass that is never
\* cancelled resolves in the end with all the columns of the view
C34_EveryBatchAdvances ==
    /\ [][\A k \in Tasks :
            (Batched(k) /\ taskCancel'[k] \notin requested["field"]) =>
                columns'[k] > columns[k]]_vars
    /\ \A k \in Tasks :
          NeverCancelled(k) =>
              [](batch[k] = "sleeping" =>
                    <>(batch[k] = "resolved" /\ columns[k] = MaxColumns))

\* C34: a call of batchInterpolate never takes a column back, and one that
\* yields has interpolated at least one new column; a pass that is never
\* cancelled ends after finitely many calls: it resolves with all the
\* columns of the view, or is rejected because a call threw
C34_PassTerminates ==
    /\ [][\A k \in Tasks :
            Batched(k) =>
                /\ columns'[k] >= columns[k]
                /\ batch'[k] = "sleeping" => columns'[k] > columns[k]]_vars
    /\ \A k \in Tasks :
          NeverCancelled(k) =>
              [](batch[k] = "sleeping" =>
                    <>(\/ batch[k] = "resolved" /\ columns[k] = MaxColumns
                       \/ batch[k] = "rejected"))

\* C34: a pass that was not cancelled resolved after its timer had fired,
\* all the columns of the view interpolated
C34_Witness ==
    /\ last.ev = "batch" /\ batch[last.k] = "resolved"
    /\ taskCancel[last.k] \notin requested["field"]
    /\ columns[last.k] = MaxColumns

\* the samples of the file with the one at column c of row r of the grid
\* taken out
Punched(r, c) == [samples EXCEPT !.hole = grid.src[r] * grid.ni + c]

\* the row of the grid at or north of the latitude interpolate was last
\* called with
RowAbove == Floor(Div(Sub(header.la1, point[2]), header.dy))

\* C35: at a point within the bounds the value interpolate returns depends
\* on no sample outside the two rows that enclose its latitude, RowAbove and
\* the one south of it: the value is the same with such a sample taken out.
\* South of the last row there is no row but the last, and the samples of
\* row 0 have no part in the value.
C35_OnlyEnclosingRows ==
    (product.st = "built" /\ point # <<>> /\ samples.hole = -1
        /\ within(header, point[1], point[2])) =>
        \A r \in 0..(header.ny - 1), c \in 0..(header.nx - 1) :
            r \notin {RowAbove, RowAbove + 1} =>
                interpolate(header, grid, Punched(r, c), point[1], point[2])
                    = returned

\* C35: interpolate returned a value for a point south of the last row of a
\* grid of more than one row, and returns null there once a sample of row 0
\* is taken out
C35_Reached ==
    /\ product.st = "built" /\ point # <<>> /\ samples.hole = -1
    /\ within(header, point[1], point[2])
    /\ header.ny > 1 /\ RowAbove = header.ny - 1
    /\ returned # null
    /\ \E c \in 0..(header.nx - 1) :
          interpolate(header, grid, Punched(0, c), point[1], point[2]) = null

\* C36: when run applies the task function of task k of an agent, the token
\* in the agent's cancel property, which the function reads as this.cancel,
\* is the token of task k, and its requested flag is not set
C36_OwnTokenAtInvocation ==
    [][\A a \in Agents, k \in Tasks :
        (pc[a][k] = "args" /\ pc'[a][k] \in {"running", "aborted"}) =>
            /\ cancel[a] = k
            /\ thisCancel(a) = k
            /\ k \notin requested[a]]_vars

\* C36: a task function was applied while an earlier task of the agent,
\* superseded by now, was still at work or had been skipped
C36_Witness ==
    /\ last.ev = "apply" /\ last.k = cancel[last.a]
    /\ last.k \notin requested[last.a]
    /\ \E j \in Tasks :
          j < last.k /\ pc[last.a][j] \in {"running", "skipped"}

\* the element of this.grid that setAt({x, y}, value) assigns:
\* const index = this.width * y + x
SlotOf(i) == placed.width * placed.at[i].y + placed.at[i].x

\* C37: every cell of an irregular grid is given a raster index with x in
\* [0, width) and y in [0, height), so that setAt assigns an element of the
\* raster, and the element that stands for (x, y) and for no other cell of
\* the raster
C37_EveryCellInside ==
    placed.t = "placed" =>
        \A i \in DOMAIN source.lat :
            /\ 0 <= placed.at[i].x /\ placed.at[i].x < placed.width
            /\ 0 <= placed.at[i].y /\ placed.at[i].y < placed.height
            /\ SlotOf(i) \in 0..(placed.width * placed.height - 1)
            /\ SlotOf(i) % placed.width = placed.at[i].x
            /\ SlotOf(i) \div placed.width = placed.at[i].y

\* C37: a cell was given x = -1 in a row below the first, where setAt
\* assigns the last element of the row before
C37_Reached ==
    /\ placed.t = "placed"
    /\ \E i \in DOMAIN source.lat :
          /\ placed.at[i].x = -1 /\ placed.at[i].y >= 1
          /\ SlotOf(i) \in 0..(placed.width * placed.height - 1)
          /\ SlotOf(i) \div placed.width = placed.at[i].y - 1

\* C38: a pass of averageGrid leaves every cell that held a value as it
\* was, and the size of the raster too: the cells it has changed were empty
C38_FilledCellsKept ==
    passes >= 1 =>
        /\ raster.width = before.width /\ raster.height = before.height
        /\ DOMAIN raster.grid = DOMAIN before.grid
        /\ \A i \in DOMAIN before.grid :
              i \notin Empty(before) => raster.grid[i] = before.grid[i]

\* C38: a pass filled an empty cell next to filled ones, which it kept
C38_Witness ==
    /\ passes >= 1
    /\ \E i \in Empty(before) :
          /\ i \notin Empty(raster)
          /\ \E j \in FilledAround(before, i) :
                raster.grid[j] = before.grid[j]
====
